---- MODULE Spec2Model ----
(***************************************************************************)
(* A model of the jsoncpp document model: Json::Value (json_value.cpp,     *)
(* src/unnamed/part_002), its key type Value::CZString, the store          *)
(* std::map<CZString, Value, CZStringCompare> (value.h,                    *)
(* src/unnamed/part_001) and the iterators (json_valueiterator.inl).       *)
(*                                                                         *)
(* Memory is explicit.  A pointer is an integer: 0 is nullptr, a positive  *)
(* number is the address of a heap cell (a malloc'ed C string or a         *)
(* new'ed ObjectValues), a negative number -k is the address of the k-th   *)
(* string of the program's static storage (StaticTable).  A C string is    *)
(* the sequence of its bytes without the terminating NUL.                  *)
(***************************************************************************)
EXTENDS Integers, Sequences, FiniteSets, TLC

VARIABLES mem,    \* the heap: address -> cell
          a, b,   \* two Json::Value objects of the calling program
          k1, k2, \* two Value::CZString objects of the calling program
          path,   \* a Json::Path object of the calling program: its args_
          it1, it2, \* two Value::iterator objects of the calling program
          last,   \* what the last operation was given and what it returned
          fault   \* the program has run into undefined behaviour

vars == <<mem, a, b, k1, k2, path, it1, it2, last, fault>>

----------------------------------------------------------------------------
(* Bounds of the model *)

\* heap cells that may ever be allocated in one run (a freed cell is not reused)
MaxAddr == 6
\* array indices are drawn from 0..MaxIndex
MaxIndex == 3
\* member names and string texts are the first MaxNames entries of StaticTable
MaxNames == 4
\* operations in one run
MaxSteps == 4
\* integers stored in the documents are drawn from 1..MaxElem
MaxElem == 2
\* a failing allocation is preceded by 0..MaxLeft allocations that succeed
MaxLeft == 3
\* path strings have at most MaxPath bytes
MaxPath == 4

----------------------------------------------------------------------------
(* enum ValueType *)
nullValue == 0
intValue == 1
uintValue == 2
realValue == 3
stringValue == 4
booleanValue == 5
arrayValue == 6
objectValue == 7

(* enum CZString::DuplicationPolicy *)
noDuplication == 0
duplicate == 1
duplicateOnCopy == 2

\* "Unknown size marker": numeric_limits<unsigned int>::max(), i.e. (unsigned)-1
unknown == -1

----------------------------------------------------------------------------
(* Static storage and the texts the calling program uses *)

\* "", "a", "b", "c", "ab", "ba"
StaticTable == << <<>>, <<97>>, <<98>>, <<99>>, <<97, 98>>, <<98, 97>> >>

Texts == {StaticTable[i] : i \in 1..MaxNames}
StaticPtr(t) == -(CHOOSE i \in 1..Len(StaticTable) : StaticTable[i] = t)

Indices == 0..MaxIndex

----------------------------------------------------------------------------
(* The heap.  A threaded heap state h is [cells, fault, oom, left,          *)
(* checked, thrown]: the cells, whether undefined behaviour has happened,  *)
(* whether an allocation found no cell left (such a run is outside the     *)
(* bounds and is cut), how many allocations succeed before malloc and      *)
(* operator new fail (-1: all of them), whether the build defines          *)
(* JSONCPP_ENABLE_ASSERTS, whether an exception is on its way to the       *)
(* caller.                                                                 *)

\* the shape of a std::map without entries (see the red-black tree below)
EmptyTree == [root |-> 0, nodes |-> <<>>]

NoCell == [kind |-> "none", text |-> <<>>, ents |-> <<>>, tree |-> EmptyTree]
Addrs == 1..MaxAddr
\* cell 0 stands for what nullptr points at; it is never allocated
EmptyMem == [x \in 0..MaxAddr |-> NoCell]

Heap(cells) == [cells |-> cells, fault |-> FALSE, oom |-> FALSE,
                left |-> -1, checked |-> TRUE, thrown |-> FALSE]

\* the heap of a build (with or without JSONCPP_ENABLE_ASSERTS) in which the
\* allocations after the first n fail
HeapFailing(cells, n, checked) == [Heap(cells) EXCEPT !.left = n, !.checked = checked]

\* throw std::runtime_error / std::bad_alloc
Throw(h) == [h EXCEPT !.thrown = TRUE]

\* one allocation has succeeded
Took(h) == IF h.left > 0 THEN [h EXCEPT !.left = h.left - 1] ELSE h

FreeAddrs(h) == {x \in Addrs : h.cells[x].kind = "none"}

\* malloc / operator new: the lowest cell never used, 0 when none is left
NewAddr(h) == IF FreeAddrs(h) = {} THEN 0
              ELSE CHOOSE x \in FreeAddrs(h) : \A y \in FreeAddrs(h) : x <= y

Put(h, p, cell) == IF p \in Addrs THEN [h EXCEPT !.cells[p] = cell]
                   ELSE [h EXCEPT !.oom = TRUE]

Fault(h) == [h EXCEPT !.fault = TRUE]

\* free(p) of a live malloc'ed string; anything else (static storage, a
\* cell already freed) is undefined behaviour
free(h, p) == IF p \in Addrs /\ h.cells[p].kind = "str"
              THEN [h EXCEPT !.cells[p].kind = "freed"]
              ELSE Fault(h)

\* the bytes of the C string at p (p # 0)
TextAt(h, p) == IF p < 0 THEN StaticTable[-p]
                ELSE IF p \in Addrs THEN h.cells[p].text ELSE <<>>

\* int strcmp(const char*, const char*): bytewise, as unsigned char
RECURSIVE strcmp(_, _)
strcmp(s, t) ==
    IF s = <<>> /\ t = <<>> THEN 0
    ELSE IF s = <<>> THEN -1
    ELSE IF t = <<>> THEN 1
    ELSE IF Head(s) < Head(t) THEN -1
    ELSE IF Head(s) > Head(t) THEN 1
    ELSE strcmp(Tail(s), Tail(t))

\* duplicateStringValue(value, length): chars are the bytes at value
duplicateStringValue(h, chars, length) ==
    LET len == IF length = unknown THEN Len(chars) ELSE length
    IN  IF length # unknown /\ length = 0
        THEN [h |-> h, p |-> 0]
        ELSE IF h.left = 0
        THEN \* malloc returns 0: JSONCPP_ASSERT_MESSAGE throws, or is nothing
             [h |-> IF h.checked THEN Throw(h) ELSE h, p |-> 0]
        ELSE LET newString == NewAddr(h)
             IN  [h |-> Took(Put(h, newString,
                            [kind |-> "str", text |-> SubSeq(chars, 1, len), ents |-> <<>>,
                             tree |-> EmptyTree])),
                  p |-> newString]

\* releaseStringValue(value)
releaseStringValue(h, value) == IF value # 0 THEN free(h, value) ELSE h

----------------------------------------------------------------------------
(* class Value::CZString: [cstr_, index_] *)

\* a std::string_view argument: [isnull, chars]
StringView(t) == [isnull |-> FALSE, chars |-> t]

CZString_index(index) == [cstr_ |-> 0, index_ |-> index]

\* CZString(const char* cstr, DuplicationPolicy allocate)
CZString_cstr(h, cstr, allocate) ==
    IF allocate = duplicate
    THEN LET d == duplicateStringValue(h, TextAt(h, cstr), unknown)
         IN  [h |-> d.h, k |-> [cstr_ |-> d.p, index_ |-> allocate]]
    ELSE [h |-> h, k |-> [cstr_ |-> cstr, index_ |-> allocate]]

\* CZString(const CZString& other)
CZString_copy(h, other) ==
    LET idx == IF other.cstr_ # 0
               THEN (IF other.index_ = noDuplication THEN noDuplication ELSE duplicate)
               ELSE other.index_
    IN  IF other.index_ # noDuplication /\ other.cstr_ # 0
        THEN LET d == duplicateStringValue(h, TextAt(h, other.cstr_), unknown)
             IN  [h |-> d.h, k |-> [cstr_ |-> d.p, index_ |-> idx]]
        ELSE [h |-> h, k |-> [cstr_ |-> other.cstr_, index_ |-> idx]]

\* explicit CZString(std::string_view str)
CZString_sv(h, str) ==
    IF ~str.isnull
    THEN LET d == duplicateStringValue(h, str.chars, Len(str.chars))
         IN  [h |-> d.h, k |-> [cstr_ |-> d.p, index_ |-> duplicate]]
    ELSE [h |-> h, k |-> [cstr_ |-> 0, index_ |-> noDuplication]]

\* ~CZString()
CZString_dtor(h, k) ==
    IF k.cstr_ # 0 /\ k.index_ = duplicate THEN releaseStringValue(h, k.cstr_) ELSE h

\* operator< with the result of strcmp read the wrong way round
CZString_less_reversed(h, x, y) ==
    IF x.cstr_ = y.cstr_ THEN FALSE
    ELSE IF x.cstr_ # 0 /\ y.cstr_ # 0
         THEN strcmp(TextAt(h, x.cstr_), TextAt(h, y.cstr_)) > 0
         ELSE FALSE

\* bool CZString::operator<(const CZString& other) const
CZString_less(h, x, y) ==
    IF x.cstr_ = y.cstr_ THEN FALSE
    ELSE IF x.cstr_ # 0 /\ y.cstr_ # 0
         THEN strcmp(TextAt(h, x.cstr_), TextAt(h, y.cstr_)) < 0
         ELSE FALSE

\* bool CZString::operator==(const CZString& other) const
CZString_eq(h, x, y) ==
    IF x.cstr_ = 0 \/ y.cstr_ = 0 THEN x.cstr_ = y.cstr_
    ELSE IF x.cstr_ = y.cstr_ THEN TRUE
    ELSE strcmp(TextAt(h, x.cstr_), TextAt(h, y.cstr_)) = 0

CZString_isStaticString(k) == k.index_ = noDuplication

----------------------------------------------------------------------------
(* struct CZStringCompare (is_transparent) and                             *)
(* std::map<CZString, Value, CZStringCompare>.  A store is the sequence of *)
(* its entries [first, second] in the order the comparator gives them,     *)
(* which is the order in which the map's iterators visit them.            *)

\* bool operator()(const CZString& lhs, const CZString& rhs)
CZStringCompare_kk(h, lhs, rhs) == CZString_less(h, lhs, rhs)

\* bool operator()(const char* lhs, const CZString& rhs); lhs given by its bytes
CZStringCompare_ck(h, lhs, rhs) ==
    IF rhs.cstr_ # 0 THEN strcmp(lhs, TextAt(h, rhs.cstr_)) < 0 ELSE FALSE

\* bool operator()(const CZString& lhs, const char* rhs)
CZStringCompare_kc(h, lhs, rhs) ==
    IF lhs.cstr_ # 0 THEN strcmp(TextAt(h, lhs.cstr_), rhs) < 0 ELSE FALSE

\* bool operator()(std::string_view lhs, const CZString& rhs):
\* rhs.length() is strlen(rhs.cstr_), undefined for a null cstr_
CZStringCompare_sk(h, lhs, rhs) ==
    IF rhs.cstr_ = 0 THEN [lt |-> FALSE, ub |-> TRUE]
    ELSE [lt |-> strcmp(lhs.chars, TextAt(h, rhs.cstr_)) < 0, ub |-> FALSE]

\* bool operator()(const CZString& lhs, std::string_view rhs)
CZStringCompare_ks(h, lhs, rhs) ==
    IF lhs.cstr_ = 0 THEN [lt |-> FALSE, ub |-> TRUE]
    ELSE [lt |-> strcmp(TextAt(h, lhs.cstr_), rhs.chars) < 0, ub |-> FALSE]

\* the first position whose entry does not come before the probe
\* (before[i] is comp(entry i, probe)); Len+1 is end()
LowerBound(before) ==
    IF \E i \in 1..Len(before) : ~before[i]
    THEN CHOOSE i \in 1..Len(before) :
             ~before[i] /\ \A j \in 1..(i - 1) : before[j]
    ELSE Len(before) + 1

\* map::find(const CZString&): the position found, 0 for end()
MapFind_k(h, ents, k) ==
    LET j == LowerBound([i \in 1..Len(ents) |-> CZStringCompare_kk(h, ents[i].first, k)])
    IN  IF j <= Len(ents) /\ ~CZStringCompare_kk(h, k, ents[j].first) THEN j ELSE 0

\* map::find(ArrayIndex): the comparator's only viable overload converts the
\* index with CZString(ArrayIndex)
MapFind_index(h, ents, index) == MapFind_k(h, ents, CZString_index(index))

\* map::find(std::string_view): [pos, ub]; comparing with an entry whose
\* cstr_ is null is undefined behaviour
MapFind_sv(h, ents, key) ==
    LET j == LowerBound([i \in 1..Len(ents) |-> CZStringCompare_ks(h, ents[i].first, key).lt])
    IN  [pos |-> IF j <= Len(ents) /\ ~CZStringCompare_sk(h, key, ents[j].first).lt
                 THEN j ELSE 0,
         ub  |-> \E i \in 1..Len(ents) : ents[i].first.cstr_ = 0]

\* the entries the comparator holds equivalent to key k
MapEquiv(h, ents, k) ==
    {i \in 1..Len(ents) : ~CZStringCompare_kk(h, ents[i].first, k)
                          /\ ~CZStringCompare_kk(h, k, ents[i].first)}

InsertAt(ents, j, e) == SubSeq(ents, 1, j - 1) \o <<e>> \o SubSeq(ents, j, Len(ents))
RemoveAt(ents, j) == SubSeq(ents, 1, j - 1) \o SubSeq(ents, j + 1, Len(ents))

\* where map::emplace puts a key equivalent to no entry
MapInsertPos(h, ents, k) ==
    LowerBound([i \in 1..Len(ents) |-> CZStringCompare_kk(h, ents[i].first, k)])

----------------------------------------------------------------------------
(* The red-black tree behind std::map (libstdc++ _Rb_tree).  The shape of  *)
(* a map is [root, nodes]: nodes[i] is the node of the entry at position   *)
(* i of the store, [p, l, r, red] being its parent, its left and right     *)
(* child (positions, 0 for none) and its colour.  The shape decides the    *)
(* order in which the copy constructor clones the nodes.                   *)

\* F(v), with v evaluated once before F is applied to it
With(v, F(_)) == CHOOSE y \in {F(x) : x \in {v}} : TRUE

SetP(T, i, v) == IF i = 0 THEN T ELSE [T EXCEPT !.nodes[i].p = v]
SetL(T, i, v) == IF i = 0 THEN T ELSE [T EXCEPT !.nodes[i].l = v]
SetR(T, i, v) == IF i = 0 THEN T ELSE [T EXCEPT !.nodes[i].r = v]
SetRed(T, i, v) == IF i = 0 THEN T ELSE [T EXCEPT !.nodes[i].red = v]
IsRed(T, i) == i # 0 /\ T.nodes[i].red

\* the child of x's parent that is x becomes y (the root when x has none)
Replace(T, x, y) ==
    LET xp == T.nodes[x].p
    IN  IF x = T.root THEN [T EXCEPT !.root = y]
        ELSE IF x = T.nodes[xp].l THEN SetL(T, xp, y)
        ELSE SetR(T, xp, y)

\* local_Rb_tree_rotate_left(x, root)
Rb_tree_rotate_left(T, x) ==
    LET y == T.nodes[x].r
    IN  With(SetP(SetR(T, x, T.nodes[y].l), T.nodes[y].l, x), LAMBDA T1 :
        With(SetP(T1, y, T.nodes[x].p), LAMBDA T2 :
             SetP(SetL(Replace(T2, x, y), y, x), x, y)))

\* local_Rb_tree_rotate_right(x, root)
Rb_tree_rotate_right(T, x) ==
    LET y == T.nodes[x].l
    IN  With(SetP(SetL(T, x, T.nodes[y].r), T.nodes[y].r, x), LAMBDA T1 :
        With(SetP(T1, y, T.nodes[x].p), LAMBDA T2 :
             SetP(SetR(Replace(T2, x, y), y, x), x, y)))

\* one turn of the rebalancing loop of _Rb_tree_insert_and_rebalance for
\* the red node x, whose parent is red: [T, x] for the next turn
InsertRebalanceStep(T, x) ==
    LET xp  == T.nodes[x].p
        xpp == T.nodes[xp].p
        onleft == xp = T.nodes[xpp].l
        y   == IF onleft THEN T.nodes[xpp].r ELSE T.nodes[xpp].l
        inner == x = (IF onleft THEN T.nodes[xp].r ELSE T.nodes[xp].l)
        x1  == IF inner THEN xp ELSE x
    IN  IF IsRed(T, y)
        THEN [T |-> SetRed(SetRed(SetRed(T, xp, FALSE), y, FALSE), xpp, TRUE), x |-> xpp]
        ELSE With(IF ~inner THEN T
                  ELSE IF onleft THEN Rb_tree_rotate_left(T, xp)
                  ELSE Rb_tree_rotate_right(T, xp),
                  LAMBDA T1 :
             With(SetRed(SetRed(T1, T1.nodes[x1].p, FALSE), xpp, TRUE),
                  LAMBDA T2 :
                  [T |-> IF onleft THEN Rb_tree_rotate_right(T2, xpp)
                         ELSE Rb_tree_rotate_left(T2, xpp),
                   x |-> x1]))

\* the rebalancing loop of _Rb_tree_insert_and_rebalance, x being red
RECURSIVE InsertRebalance(_, _)
InsertRebalance(T, x) ==
    IF x = T.root \/ ~IsRed(T, T.nodes[x].p) THEN SetRed(T, T.root, FALSE)
    ELSE With(InsertRebalanceStep(T, x), LAMBDA n : InsertRebalance(n.T, n.x))

\* the positions of a shape when an entry is put at position j, or the
\* entry at position j is taken out
Up(x, j) == IF x >= j THEN x + 1 ELSE x
Down(x, j) == IF x > j THEN x - 1 ELSE x

\* _Rb_tree_insert_and_rebalance for the node of a new entry at position
\* j: it hangs under its successor when that has no left child, else under
\* its predecessor
Rb_tree_insert_and_rebalance(T, j) ==
    LET n    == Len(T.nodes)
        old  == [i \in 1..n |-> [p |-> Up(T.nodes[i].p, j), l |-> Up(T.nodes[i].l, j),
                                 r |-> Up(T.nodes[i].r, j), red |-> T.nodes[i].red]]
        left == j <= n /\ T.nodes[j].l = 0
        par  == IF n = 0 THEN 0 ELSE IF left THEN j + 1 ELSE j - 1
        x    == [p |-> par, l |-> 0, r |-> 0, red |-> TRUE]
        T1   == [root |-> IF n = 0 THEN j ELSE Up(T.root, j),
                 nodes |-> InsertAt(old, j, x)]
    IN  With(IF n = 0 THEN T1 ELSE IF left THEN SetL(T1, par, j) ELSE SetR(T1, par, j),
             LAMBDA T2 : InsertRebalance(T2, j))

\* the leftmost node under y
RECURSIVE Minimum(_, _)
Minimum(T, y) == IF T.nodes[y].l = 0 THEN y ELSE Minimum(T, T.nodes[y].l)

\* one turn of the loop of _Rb_tree_rebalance_for_erase that restores the
\* black heights, x (0 for none) being black and hanging under xp:
\* [T, x, xp, done] for the next turn
EraseRebalanceStep(T, x, xp) ==
    LET onleft  == x = T.nodes[xp].l
        Sib(U)  == IF onleft THEN U.nodes[xp].r ELSE U.nodes[xp].l
        Far(U, w)  == IF onleft THEN U.nodes[w].r ELSE U.nodes[w].l
        Near(U, w) == IF onleft THEN U.nodes[w].l ELSE U.nodes[w].r
        ToX(U, n) == IF onleft THEN Rb_tree_rotate_left(U, n) ELSE Rb_tree_rotate_right(U, n)
        FromX(U, n) == IF onleft THEN Rb_tree_rotate_right(U, n) ELSE Rb_tree_rotate_left(U, n)
    IN  With(IF IsRed(T, Sib(T))
             THEN ToX(SetRed(SetRed(T, Sib(T), FALSE), xp, TRUE), xp)
             ELSE T,
             LAMBDA T1 :
        IF ~IsRed(T1, Near(T1, Sib(T1))) /\ ~IsRed(T1, Far(T1, Sib(T1)))
        THEN [T |-> SetRed(T1, Sib(T1), TRUE), x |-> xp, xp |-> T1.nodes[xp].p,
              done |-> FALSE]
        ELSE With(IF ~IsRed(T1, Far(T1, Sib(T1)))
                  THEN FromX(SetRed(SetRed(T1, Near(T1, Sib(T1)), FALSE), Sib(T1), TRUE),
                             Sib(T1))
                  ELSE T1,
                  LAMBDA T2 :
             With(SetRed(SetRed(T2, Sib(T2), T2.nodes[xp].red), xp, FALSE),
                  LAMBDA T3 :
                  [T |-> ToX(SetRed(T3, Far(T3, Sib(T3)), FALSE), xp), x |-> x, xp |-> xp,
                   done |-> TRUE])))

\* the loop of _Rb_tree_rebalance_for_erase that restores the black
\* heights: x (0 for none) hangs under xp
RECURSIVE EraseRebalance(_, _, _)
EraseRebalance(T, x, xp) ==
    IF x = T.root \/ IsRed(T, x) THEN SetRed(T, x, FALSE)
    ELSE With(EraseRebalanceStep(T, x, xp),
              LAMBDA n : IF n.done THEN SetRed(n.T, n.x, FALSE)
                         ELSE EraseRebalance(n.T, n.x, n.xp))

\* _Rb_tree_rebalance_for_erase for the node z of the entry at position z,
\* which is then taken out of the shape
Rb_tree_rebalance_for_erase(T, z) ==
    LET zn  == T.nodes[z]
        two == zn.l # 0 /\ zn.r # 0
        \* the node that is unlinked where it stands, and its only child
        y   == IF two THEN Minimum(T, zn.r) ELSE z
        x   == IF zn.l = 0 THEN zn.r ELSE IF zn.r = 0 THEN zn.l ELSE T.nodes[y].r
        xp  == IF two /\ y = zn.r THEN y ELSE T.nodes[y].p
        \* y # z: y takes the place and the colour of z
        A1  == SetL(SetP(T, zn.l, y), y, zn.l)
        A2  == IF y # zn.r
               THEN SetP(SetR(SetL(SetP(A1, x, T.nodes[y].p), T.nodes[y].p, x),
                              y, zn.r), zn.r, y)
               ELSE A1
        A3  == SetRed(SetP(Replace(A2, z, y), y, zn.p), y, zn.red)
        \* y = z: x takes the place of z
        B1  == Replace(SetP(T, x, zn.p), z, x)
        gone == IF two THEN T.nodes[y].red ELSE zn.red
    IN  With(IF two THEN A3 ELSE B1, LAMBDA U :
        With(IF gone THEN U ELSE EraseRebalance(U, x, xp), LAMBDA V :
             [root  |-> Down(V.root, z),
              nodes |-> RemoveAt([i \in 1..Len(V.nodes) |->
                                     [p |-> Down(V.nodes[i].p, z),
                                      l |-> Down(V.nodes[i].l, z),
                                      r |-> Down(V.nodes[i].r, z),
                                      red |-> V.nodes[i].red]], z)]))

\* _Rb_tree::_M_copy(x, p): the order in which the nodes under x are
\* cloned: x, the nodes under its right child, then down its left child
RECURSIVE Rb_tree_copy_order(_, _)
Rb_tree_copy_order(T, x) ==
    IF x = 0 THEN <<>>
    ELSE <<x>> \o Rb_tree_copy_order(T, T.nodes[x].r)
               \o Rb_tree_copy_order(T, T.nodes[x].l)

----------------------------------------------------------------------------
(* class Value: [type_, value_, allocated_]; value_ is the union           *)
(* ValueHolder.  int_ and uint_ share one field, real_ is [nan, v].        *)

ZeroHolder == [int_ |-> 0, real_ |-> [nan |-> FALSE, v |-> 0], bool_ |-> FALSE,
               string_ |-> 0, map_ |-> 0]

MapCell(ents, tree) == [kind |-> "map", text |-> <<>>, ents |-> ents, tree |-> tree]

\* Value(ValueType type)
Value_type(h, type) ==
    IF type \in {arrayValue, objectValue}
    THEN LET p == NewAddr(h)
         IN  [h |-> Put(h, p, MapCell(<<>>, EmptyTree)),
              v |-> [type_ |-> type, value_ |-> [ZeroHolder EXCEPT !.map_ = p],
                     allocated_ |-> FALSE]]
    ELSE [h |-> h, v |-> [type_ |-> type, value_ |-> ZeroHolder, allocated_ |-> FALSE]]

\* const Value Value::null
null == [type_ |-> nullValue, value_ |-> ZeroHolder, allocated_ |-> FALSE]

\* Value(Int) / Value(Int64)
Value_int(n) == [type_ |-> intValue, value_ |-> [ZeroHolder EXCEPT !.int_ = n],
                 allocated_ |-> FALSE]
\* Value(UInt) / Value(UInt64)
Value_uint(n) == [type_ |-> uintValue, value_ |-> [ZeroHolder EXCEPT !.int_ = n],
                  allocated_ |-> FALSE]
\* Value(double)
Value_double(r) == [type_ |-> realValue, value_ |-> [ZeroHolder EXCEPT !.real_ = r],
                    allocated_ |-> FALSE]
\* Value(bool)
Value_bool(x) == [type_ |-> booleanValue, value_ |-> [ZeroHolder EXCEPT !.bool_ = x],
                  allocated_ |-> FALSE]

\* Value(const char* value); the argument given by its bytes
Value_cstr(h, chars) ==
    LET d == duplicateStringValue(h, chars, unknown)
    IN  [h |-> d.h, v |-> [type_ |-> stringValue,
                           value_ |-> [ZeroHolder EXCEPT !.string_ = d.p],
                           allocated_ |-> TRUE]]

\* Value(const StaticString& value)
Value_static(p) == [type_ |-> stringValue, value_ |-> [ZeroHolder EXCEPT !.string_ = p],
                    allocated_ |-> FALSE]

\* Value(std::string_view value) / Value(const std::string&)
Value_sv(h, str) ==
    LET d == duplicateStringValue(h, str.chars, Len(str.chars))
    IN  [h |-> d.h, v |-> [type_ |-> stringValue,
                           value_ |-> [ZeroHolder EXCEPT !.string_ = d.p],
                           allocated_ |-> TRUE]]

----------------------------------------------------------------------------
(* Copy, destruction, swap, assignment *)

\* a copy that takes over the other's payload as it is
Value_copy_shallow(h, other) == [h |-> h, v |-> other]

RECURSIVE Value_copy(_, _)
RECURSIVE MapCopyNodes(_, _, _, _)
RECURSIVE Value_dtor(_, _)
RECURSIVE MapDestroy(_, _)

\* _Rb_tree::_M_copy: the nodes are cloned in the order `order` (positions
\* of ents); every pair<const CZString, Value> is copied with
\* CZString(const CZString&) and Value(const Value&); acc holds the
\* [pos, first, second] of the nodes cloned so far
MapCopyNodes(h, ents, order, acc) ==
    IF order = <<>> THEN [h |-> h, acc |-> acc]
    ELSE IF h.left = 0
    THEN \* the node cannot be allocated: the nodes built so far are destroyed
         [h |-> MapDestroy(Throw(h), acc), acc |-> <<>>]
    ELSE With(CZString_copy(Took(h), ents[Head(order)].first), LAMBDA k :
         With(Value_copy(k.h, ents[Head(order)].second), LAMBDA v :
             IF k.h.thrown THEN [h |-> MapDestroy(k.h, acc), acc |-> <<>>]
             ELSE IF v.h.thrown
             THEN [h |-> MapDestroy(CZString_dtor(v.h, k.k), acc), acc |-> <<>>]
             ELSE MapCopyNodes(v.h, ents, Tail(order),
                      Append(acc, [pos |-> Head(order), first |-> k.k, second |-> v.v]))))

\* the entries [first, second] of pos 1, 2, ... among the nodes acc
RECURSIVE InKeyOrder(_, _)
InKeyOrder(acc, i) ==
    IF i > Len(acc) THEN <<>>
    ELSE LET n == CHOOSE m \in 1..Len(acc) : acc[m].pos = i
         IN  <<[first |-> acc[n].first, second |-> acc[n].second]>> \o InKeyOrder(acc, i + 1)

\* std::map copy constructor, for a map of entries ents and shape tree
MapCopy(h, ents, tree) ==
    With(MapCopyNodes(h, ents, Rb_tree_copy_order(tree, tree.root), <<>>), LAMBDA c :
         [h |-> c.h, ents |-> IF c.h.thrown THEN <<>> ELSE InKeyOrder(c.acc, 1)])

\* Value(const Value& other)
Value_copy(h, other) ==
    IF other.type_ \in {nullValue, intValue, uintValue, realValue, booleanValue}
    THEN [h |-> h, v |-> [type_ |-> other.type_, value_ |-> other.value_,
                          allocated_ |-> FALSE]]
    ELSE IF other.type_ = stringValue
    THEN IF other.value_.string_ # 0
         THEN LET d == duplicateStringValue(h, TextAt(h, other.value_.string_), unknown)
              IN  [h |-> d.h, v |-> [type_ |-> stringValue,
                                     value_ |-> [ZeroHolder EXCEPT !.string_ = d.p],
                                     allocated_ |-> TRUE]]
         ELSE [h |-> h, v |-> [type_ |-> stringValue, value_ |-> ZeroHolder,
                               allocated_ |-> FALSE]]
    ELSE \* arrayValue, objectValue: new ObjectValues(*other.value_.map_)
         LET p  == NewAddr(h)
             h1 == Took(Put(h, p, MapCell(<<>>, EmptyTree)))
             c  == MapCopy(h1, h.cells[other.value_.map_].ents,
                           h.cells[other.value_.map_].tree)
         IN  IF h.left = 0
             THEN [h |-> Throw(h), v |-> null]
             ELSE IF c.h.thrown
             THEN \* the new-expression releases the storage
                  [h |-> [c.h EXCEPT !.cells[p].kind = "freed"], v |-> null]
             ELSE [h |-> Put(c.h, p, MapCell(c.ents, h.cells[other.value_.map_].tree)),
                   v |-> [type_ |-> other.type_,
                          value_ |-> [ZeroHolder EXCEPT !.map_ = p],
                          allocated_ |-> FALSE]]

\* the map's destructor: every entry's Value and CZString are destroyed
MapDestroy(h, ents) ==
    IF ents = <<>> THEN h
    ELSE MapDestroy(CZString_dtor(Value_dtor(h, Head(ents).second), Head(ents).first),
                    Tail(ents))

\* ~Value()
Value_dtor(h, v) ==
    IF v.type_ = stringValue
    THEN IF v.allocated_ THEN releaseStringValue(h, v.value_.string_) ELSE h
    ELSE IF v.type_ \in {arrayValue, objectValue}
    THEN \* delete value_.map_
         LET p == v.value_.map_
         IN  IF p = 0 THEN h
             ELSE IF p \in Addrs /\ h.cells[p].kind = "map"
             THEN [MapDestroy(h, h.cells[p].ents) EXCEPT !.cells[p].kind = "freed"]
             ELSE \* delete of what has been deleted already
                  IF p \in Addrs /\ h.cells[p].kind = "freed"
                  THEN [Fault(h) EXCEPT !.cells[p].kind = "twice"]
                  ELSE Fault(h)
    ELSE h

\* a swap that exchanges the payloads and forgets the tags
Value_swap_payloadOnly(x, y) ==
    [x |-> [x EXCEPT !.value_ = y.value_],
     y |-> [y EXCEPT !.value_ = x.value_]]

\* void Value::swap(Value& other): [x, y] are *this and other afterwards
Value_swap(x, y) ==
    [x |-> [x EXCEPT !.type_ = y.type_, !.value_ = y.value_],
     y |-> [y EXCEPT !.type_ = x.type_, !.value_ = x.value_]]

\* Value& Value::operator=(const Value& other), this != &other
Value_assign(h, self, other) ==
    LET temp == Value_copy(h, other)
        s    == Value_swap(self, temp.v)
    IN  IF temp.h.thrown
        THEN \* Value temp{ other } has thrown: swap is not reached
             [h |-> temp.h, self |-> self]
        ELSE [h |-> Value_dtor(temp.h, s.y), self |-> s.x]

\* Value& Value::operator=(Value&& other), this != &other
Value_assign_move(self, other) ==
    LET s == Value_swap(self, other) IN [self |-> s.x, other |-> s.y]

\* Value::Value(Value&& other)
Value_move(other) ==
    LET s == Value_swap(null, other) IN [self |-> s.x, other |-> s.y]

\* *this = <temporary>; the temporary is destroyed at the end of the statement
Value_assign_temp(h, self, temp) ==
    LET s == Value_assign_move(self, temp)
    IN  [h |-> Value_dtor(h, s.other), self |-> s.self]

----------------------------------------------------------------------------
(* Comparison *)

RealLess(x, y) == ~x.nan /\ ~y.nan /\ x.v < y.v
RealEq(x, y) == ~x.nan /\ ~y.nan /\ x.v = y.v
BoolNum(x) == IF x THEN 1 ELSE 0

RECURSIVE Value_less(_, _, _)
RECURSIVE Value_eq(_, _, _)
RECURSIVE MapLess(_, _, _)

\* operator< of pair<const CZString, Value>
PairLess(h, p, q) ==
    \/ CZString_less(h, p.first, q.first)
    \/ (~CZString_less(h, q.first, p.first) /\ Value_less(h, p.second, q.second))

\* operator< of std::map: std::lexicographical_compare
MapLess(h, e1, e2) ==
    IF e1 = <<>> \/ e2 = <<>> THEN e1 = <<>> /\ e2 # <<>>
    ELSE IF PairLess(h, Head(e1), Head(e2)) THEN TRUE
    ELSE IF PairLess(h, Head(e2), Head(e1)) THEN FALSE
    ELSE MapLess(h, Tail(e1), Tail(e2))

\* bool Value::operator<(const Value& other) const
Value_less(h, x, y) ==
    LET typeDelta == x.type_ - y.type_
    IN  IF typeDelta # 0 THEN typeDelta < 0
        ELSE CASE x.type_ = nullValue -> FALSE
               [] x.type_ = intValue -> x.value_.int_ < y.value_.int_
               [] x.type_ = uintValue -> x.value_.int_ < y.value_.int_
               [] x.type_ = realValue -> RealLess(x.value_.real_, y.value_.real_)
               [] x.type_ = booleanValue -> BoolNum(x.value_.bool_) < BoolNum(y.value_.bool_)
               [] x.type_ = stringValue ->
                    \/ (x.value_.string_ = 0 /\ y.value_.string_ # 0)
                    \/ (y.value_.string_ # 0 /\ x.value_.string_ # 0
                        /\ strcmp(TextAt(h, x.value_.string_),
                                  TextAt(h, y.value_.string_)) < 0)
               [] OTHER ->
                    LET e1 == h.cells[x.value_.map_].ents
                        e2 == h.cells[y.value_.map_].ents
                        delta == Len(e1) - Len(e2)
                    IN  IF delta # 0 THEN delta < 0 ELSE MapLess(h, e1, e2)

\* bool Value::operator==(const Value& other) const
Value_eq(h, x, y) ==
    IF x.type_ # y.type_ THEN FALSE
    ELSE CASE x.type_ = nullValue -> TRUE
           [] x.type_ = intValue -> x.value_.int_ = y.value_.int_
           [] x.type_ = uintValue -> x.value_.int_ = y.value_.int_
           [] x.type_ = realValue -> RealEq(x.value_.real_, y.value_.real_)
           [] x.type_ = booleanValue -> x.value_.bool_ = y.value_.bool_
           [] x.type_ = stringValue ->
                \/ x.value_.string_ = y.value_.string_
                \/ (y.value_.string_ # 0 /\ x.value_.string_ # 0
                    /\ strcmp(TextAt(h, x.value_.string_),
                              TextAt(h, y.value_.string_)) = 0)
           [] OTHER ->
                LET e1 == h.cells[x.value_.map_].ents
                    e2 == h.cells[y.value_.map_].ents
                IN  /\ Len(e1) = Len(e2)
                    /\ \A i \in 1..Len(e1) :
                          /\ CZString_eq(h, e1[i].first, e2[i].first)
                          /\ Value_eq(h, e1[i].second, e2[i].second)

Value_le(h, x, y) == ~Value_less(h, y, x)
Value_ge(h, x, y) == ~Value_less(h, x, y)
Value_gt(h, x, y) == Value_less(h, y, x)
Value_ne(h, x, y) == ~Value_eq(h, x, y)

\* a compare that forgets the case *this > other
Value_compare_lessOnly(h, x, y) ==
    IF Value_less(h, x, y) THEN -1 ELSE 0

\* int Value::compare(const Value& other) const
Value_compare(h, x, y) ==
    IF Value_less(h, x, y) THEN -1
    ELSE IF Value_gt(h, x, y) THEN 1
    ELSE 0

----------------------------------------------------------------------------
(* Size, clear, lookup, auto-vivifying access.  A reference or pointer to  *)
(* a Value stored in a map is a location [map, pos]: the address of the    *)
(* map's cell and the entry's position; [0, 0] is nullptr.                 *)

NoLoc == [map |-> 0, pos |-> 0]
Ents(h, v) == h.cells[v.value_.map_].ents
Load(h, loc) ==
    IF loc.map \in Addrs /\ loc.pos \in 1..Len(h.cells[loc.map].ents)
    THEN h.cells[loc.map].ents[loc.pos].second
    ELSE null
Store(h, loc, v) ==
    IF loc.map \in Addrs /\ loc.pos \in 1..Len(h.cells[loc.map].ents)
    THEN [h EXCEPT !.cells[loc.map].ents[loc.pos].second = v]
    ELSE h

\* ArrayIndex Value::size() const
Value_size(h, v) ==
    IF v.type_ = arrayValue
    THEN IF Ents(h, v) # <<>>
         THEN Ents(h, v)[Len(Ents(h, v))].first.index_ + 1
         ELSE 0
    ELSE IF v.type_ = objectValue THEN Len(Ents(h, v))
    ELSE 0

Value_isNull(v) == v.type_ = nullValue
Value_isArray(v) == v.type_ = nullValue \/ v.type_ = arrayValue
Value_isObject(v) == v.type_ = nullValue \/ v.type_ = objectValue

\* bool Value::empty() const
Value_empty(h, v) ==
    IF Value_isNull(v) \/ Value_isArray(v) \/ Value_isObject(v)
    THEN Value_size(h, v) = 0
    ELSE FALSE

\* void Value::clear(); pre: type_ is nullValue, arrayValue or objectValue
Value_clear(h, v) ==
    IF v.type_ \in {arrayValue, objectValue}
    THEN [MapDestroy(h, Ents(h, v)) EXCEPT !.cells[v.value_.map_].ents = <<>>,
                                               !.cells[v.value_.map_].tree = EmptyTree]
    ELSE h

\* const Value* Value::tryGet(ArrayIndex index) const; pre: null or array
Value_tryGet_index(h, v, index) ==
    IF v.type_ = nullValue THEN NoLoc
    ELSE LET it == MapFind_index(h, Ents(h, v), index)
         IN  IF it # 0 THEN [map |-> v.value_.map_, pos |-> it] ELSE NoLoc

\* const Value* Value::tryGet(std::string_view key) const; pre: null or object
Value_tryGet_sv(h, v, key) ==
    IF v.type_ = nullValue THEN [loc |-> NoLoc, ub |-> FALSE]
    ELSE LET it == MapFind_sv(h, Ents(h, v), key)
         IN  [loc |-> IF it.pos # 0 /\ ~it.ub
                      THEN [map |-> v.value_.map_, pos |-> it.pos] ELSE NoLoc,
              ub  |-> it.ub]

\* const Value* Value::tryGet(const CZString& key) const; pre: null or object
Value_tryGet_k(h, v, key) ==
    IF v.type_ = nullValue THEN NoLoc
    ELSE LET it == MapFind_k(h, Ents(h, v), key)
         IN  IF it # 0 THEN [map |-> v.value_.map_, pos |-> it] ELSE NoLoc

\* map::emplace(key, null).first for the map at p, the node's key being k
\* (already constructed) and its value a copy of Value::null.  When the
\* comparator holds k equivalent to entries of the map nothing is inserted
\* and the node is destroyed; which of several equivalent entries is
\* returned depends on the library: pick names it.
MapEmplace(h, p, k, pick) ==
    LET ents  == h.cells[p].ents
        equiv == MapEquiv(h, ents, k)
        node  == [first |-> k, second |-> null]
        j     == MapInsertPos(h, ents, k)
    IN  IF equiv = {}
        THEN [h |-> [h EXCEPT !.cells[p].ents = InsertAt(ents, j, node),
                               !.cells[p].tree =
                                   Rb_tree_insert_and_rebalance(h.cells[p].tree, j)],
              loc |-> [map |-> p, pos |-> j], pickok |-> pick = 0]
        ELSE [h |-> CZString_dtor(h, k),
              loc |-> [map |-> p, pos |-> IF pick \in equiv THEN pick ELSE 0],
              pickok |-> pick \in equiv]

\* if (type_ == nullValue) *this = Value(type);
Promote(h, self, type) ==
    IF self.type_ = nullValue
    THEN LET t == Value_type(h, type) IN Value_assign_temp(t.h, self, t.v)
    ELSE [h |-> h, self |-> self]

\* Value& Value::operator[](ArrayIndex index); pre: null or array
Value_at_index(h, self0, index) ==
    LET s   == Promote(h, self0, arrayValue)
        ret == Value_tryGet_index(s.h, s.self, index)
    IN  IF ret # NoLoc
        THEN [h |-> s.h, self |-> s.self, loc |-> ret]
        ELSE LET e == MapEmplace(s.h, s.self.value_.map_, CZString_index(index), 0)
             IN  [h |-> e.h, self |-> s.self, loc |-> e.loc]

\* Value& Value::operator[](std::string_view key); pre: null or object
Value_at_sv(h, self0, key, pick) ==
    LET s   == Promote(h, self0, objectValue)
        ret == Value_tryGet_sv(s.h, s.self, key)
    IN  IF ret.ub
        THEN [h |-> Fault(s.h), self |-> s.self, loc |-> NoLoc, pickok |-> pick = 0]
        ELSE IF ret.loc # NoLoc
        THEN [h |-> s.h, self |-> s.self, loc |-> ret.loc, pickok |-> pick = 0]
        ELSE LET k == CZString_sv(s.h, key)
                 e == MapEmplace(k.h, s.self.value_.map_, k.k, pick)
             IN  [h |-> e.h, self |-> s.self, loc |-> e.loc, pickok |-> e.pickok]

\* Value& Value::operator[](const CZString& key); pre: null or object.
\* The node holds a copy of key made with CZString(const CZString&).
Value_at_k(h, self0, key) ==
    LET s   == Promote(h, self0, objectValue)
        ret == Value_tryGet_k(s.h, s.self, key)
    IN  IF ret # NoLoc
        THEN [h |-> s.h, self |-> s.self, loc |-> ret]
        ELSE LET c == CZString_copy(s.h, key)
                 e == MapEmplace(c.h, s.self.value_.map_, c.k, 0)
             IN  [h |-> e.h, self |-> s.self, loc |-> e.loc]

\* Value& Value::resolveReference(const char* key, bool isStatic)
Value_resolveReference(h, self0, key, isStatic) ==
    LET s   == Promote(h, self0, objectValue)
        ak  == CZString_cstr(s.h, key, IF isStatic THEN noDuplication ELSE duplicateOnCopy)
        ret == Value_tryGet_k(ak.h, s.self, ak.k)
    IN  IF ret # NoLoc
        THEN [h |-> CZString_dtor(ak.h, ak.k), self |-> s.self, loc |-> ret]
        ELSE LET c == CZString_copy(ak.h, ak.k)
                 e == MapEmplace(c.h, s.self.value_.map_, c.k, 0)
             IN  [h |-> CZString_dtor(e.h, ak.k), self |-> s.self, loc |-> e.loc]

\* Value& Value::operator[](const StaticString& key)
Value_at_static(h, self0, key) == Value_resolveReference(h, self0, key, TRUE)

\* bool Value::isValidIndex(ArrayIndex index) const
Value_isValidIndex(h, v, index) == index < Value_size(h, v)

\* Value& Value::append(const Value& value)
Value_append(h, self0, value) ==
    LET r == Value_at_index(h, self0, Value_size(h, self0))
        x == Value_assign(r.h, Load(r.h, r.loc), value)
    IN  [h |-> Store(x.h, r.loc, x.self), self |-> r.self, loc |-> r.loc]

----------------------------------------------------------------------------
(* resize, removeMember, isMember *)

\* map::erase(const key_type&): every entry equivalent to k is destroyed
\* and removed
RECURSIVE MapErase(_, _, _)
MapErase(h, p, k) ==
    LET equiv == MapEquiv(h, h.cells[p].ents, k)
    IN  IF equiv = {} THEN h
        ELSE LET i  == CHOOSE x \in equiv : \A y \in equiv : x <= y
                 e  == h.cells[p].ents[i]
                 h1 == CZString_dtor(Value_dtor(h, e.second), e.first)
             IN  MapErase([h1 EXCEPT !.cells[p].ents = RemoveAt(h.cells[p].ents, i),
                                      !.cells[p].tree =
                                          Rb_tree_rebalance_for_erase(h.cells[p].tree, i)],
                          p, k)

\* for (ArrayIndex index = newSize; index < oldSize; ++index) value_.map_->erase(index);
RECURSIVE EraseFrom(_, _, _, _)
EraseFrom(h, p, index, oldSize) ==
    IF index < oldSize
    THEN EraseFrom(MapErase(h, p, CZString_index(index)), p, index + 1, oldSize)
    ELSE h

\* void Value::resize(ArrayIndex newSize); pre: null or array.
\* assertion: the outcome of assert(size() == newSize) where it is reached
Value_resize(h, self0, newSize) ==
    LET s       == Promote(h, self0, arrayValue)
        oldSize == Value_size(s.h, s.self)
    IN  IF newSize = 0
        THEN [h |-> Value_clear(s.h, s.self), self |-> s.self, assertion |-> TRUE]
        ELSE IF newSize > oldSize
        THEN LET r == Value_at_index(s.h, s.self, newSize - 1)
             IN  [h |-> r.h, self |-> r.self, assertion |-> TRUE]
        ELSE LET h1 == EraseFrom(s.h, s.self.value_.map_, newSize, oldSize)
             IN  [h |-> h1, self |-> s.self,
                  assertion |-> Value_size(h1, s.self) = newSize]

\* Value Value::removeMember(std::string_view key); pre: null or object.
\* `return old;` is not elided (the function has other return statements):
\* the Value returned is built from old with Value(Value&&), and old, left
\* with the Null tag, is destroyed.
Value_removeMember(h, self, key) ==
    IF self.type_ = nullValue THEN [h |-> h, old |-> null]
    ELSE LET it == MapFind_sv(h, Ents(h, self), key)
         IN  IF it.ub THEN [h |-> Fault(h), old |-> null]
             ELSE IF it.pos # 0
             THEN LET p   == self.value_.map_
                      e   == Ents(h, self)[it.pos]
                      old == Value_copy(h, e.second)
                      h1  == CZString_dtor(Value_dtor(old.h, e.second), e.first)
                      h2  == [h1 EXCEPT !.cells[p].ents = RemoveAt(Ents(h, self), it.pos),
                                        !.cells[p].tree =
                                            Rb_tree_rebalance_for_erase(h.cells[p].tree, it.pos)]
                      ret == Value_move(old.v)
                  IN  IF old.h.thrown THEN [h |-> old.h, old |-> null]
                      ELSE [h |-> Value_dtor(h2, ret.other), old |-> ret.self]
             ELSE [h |-> h, old |-> null]

\* bool Value::isMember(std::string_view key) const
Value_isMember(h, v, key) ==
    LET r == Value_tryGet_sv(h, v, key)
    IN  [is |-> r.loc # NoLoc, ub |-> r.ub]

----------------------------------------------------------------------------
(* Iterators: [current_, isNull_]; current_ is a std::map iterator, the    *)
(* map it belongs to and a position in it (Len+1 is the map's end()); the  *)
(* value-initialised std::map iterator is [0, 0].                          *)

\* ValueIteratorBase::ValueIteratorBase()
Iterator_default == [current_ |-> [map |-> 0, pos |-> 0], isNull_ |-> TRUE]

\* ValueIteratorBase::ValueIteratorBase(const ObjectValues::iterator& current)
Iterator_at(current) == [current_ |-> current, isNull_ |-> FALSE]

\* Value::begin()
Value_begin(h, v) ==
    IF v.type_ \in {arrayValue, objectValue} /\ v.value_.map_ # 0
    THEN Iterator_at([map |-> v.value_.map_, pos |-> 1])
    ELSE Iterator_default

\* Value::end()
Value_end(h, v) ==
    IF v.type_ \in {arrayValue, objectValue} /\ v.value_.map_ # 0
    THEN Iterator_at([map |-> v.value_.map_, pos |-> Len(Ents(h, v)) + 1])
    ELSE Iterator_default

\* void ValueIteratorBase::increment()
Iterator_increment(it) == [it EXCEPT !.current_.pos = @ + 1]
\* void ValueIteratorBase::decrement()
Iterator_decrement(it) == [it EXCEPT !.current_.pos = @ - 1]

\* bool ValueIteratorBase::isEqual(const SelfType& other) const
Iterator_isEqual(it, other) ==
    IF it.isNull_ THEN other.isNull_ ELSE it.current_ = other.current_

\* Value& ValueIteratorBase::deref() const
Iterator_deref(h, it) == Load(h, it.current_)

IteratorKey(h, it) == h.cells[it.current_.map].ents[it.current_.pos].first

\* const char* ValueIteratorBase::memberName() const, by its bytes
Iterator_memberName(h, it) ==
    LET name == IteratorKey(h, it).cstr_
    IN  IF name # 0 THEN TextAt(h, name) ELSE <<>>

\* UInt ValueIteratorBase::index() const: [h, v]; Value::UInt(-1) is given
\* as -1.  czstring is a copy of the key, destroyed on return.
Iterator_index(h, it) ==
    LET czstring == CZString_copy(h, IteratorKey(h, it))
    IN  IF czstring.h.thrown THEN [h |-> czstring.h, v |-> -1]
        ELSE [h |-> CZString_dtor(czstring.h, czstring.k),
              v |-> IF czstring.k.cstr_ = 0 THEN czstring.k.index_ ELSE -1]

\* for (it = v.begin(); it != v.end(); ++it) names.push_back(it.memberName())
RECURSIVE WalkNames(_, _, _, _)
WalkNames(h, it, end, acc) ==
    IF Iterator_isEqual(it, end) THEN acc
    ELSE WalkNames(h, Iterator_increment(it), end, Append(acc, Iterator_memberName(h, it)))

MemberNames(h, v) == WalkNames(h, Value_begin(h, v), Value_end(h, v), <<>>)

----------------------------------------------------------------------------
(* What a caller can observe of a document *)

RECURSIVE Snap(_, _)
\* the content of the tree under v: tag, payload, and for a container its
\* entries in iteration order, each with its key (a name or an index)
Snap(h, v) ==
    [t |-> v.type_,
     n |-> IF v.type_ \in {intValue, uintValue} THEN v.value_.int_ ELSE 0,
     r |-> IF v.type_ = realValue THEN v.value_.real_ ELSE ZeroHolder.real_,
     b |-> IF v.type_ = booleanValue THEN v.value_.bool_ ELSE FALSE,
     s |-> IF v.type_ = stringValue /\ v.value_.string_ # 0
           THEN <<TextAt(h, v.value_.string_)>> ELSE <<>>,
     m |-> IF v.type_ \in {arrayValue, objectValue}
           THEN [i \in 1..Len(Ents(h, v)) |->
                    LET e == Ents(h, v)[i]
                    IN  [name  |-> IF e.first.cstr_ # 0
                                   THEN <<TextAt(h, e.first.cstr_)>> ELSE <<>>,
                         index |-> IF e.first.cstr_ = 0 THEN e.first.index_ ELSE 0,
                         val   |-> Snap(h, e.second)]]
           ELSE <<>>]

\* what tryGet(index) points at: <<>> for nullptr, else <<the content>>
GetIdx(h, v, index) ==
    LET l == Value_tryGet_index(h, v, index)
    IN  IF l = NoLoc THEN <<>> ELSE <<Snap(h, Load(h, l))>>

\* what tryGet(name) points at, for a store it is defined on
GetName(h, v, key) ==
    LET r == Value_tryGet_sv(h, v, StringView(key))
    IN  IF r.ub \/ r.loc = NoLoc THEN <<>> ELSE <<Snap(h, Load(h, r.loc))>>

\* the names isMember reports as members (where it is defined)
Members(h, v) ==
    IF v.type_ \in {nullValue, objectValue}
    THEN {t \in Texts : LET r == Value_isMember(h, v, StringView(t)) IN r.is /\ ~r.ub}
    ELSE {}

AllIndices == 0..(MaxIndex + 1)
ElemInts == 1..MaxElem

----------------------------------------------------------------------------
(* The calling program *)

NoOp == [op |-> "none", i |-> 0, key |-> <<>>, x |-> Snap(Heap(EmptyMem), null),
         ret |-> <<>>, found |-> FALSE, ub |-> FALSE,
         pre |-> Snap(Heap(EmptyMem), null), preb |-> Snap(Heap(EmptyMem), null),
         presize |-> 0,
         preGet |-> [j \in AllIndices |-> <<>>],
         preMember |-> {},
         names |-> <<>>, assertion |-> TRUE, n |-> 0,
         lt |-> FALSE, gt |-> FALSE, eq |-> FALSE, same |-> FALSE,
         le |-> FALSE, ge |-> FALSE, ne |-> FALSE, cmp |-> 0, w |-> "",
         thrown |-> FALSE, checked |-> TRUE, signal |-> "none", other |-> 0,
         str |-> <<>>, in |-> <<>>, holes |-> <<>>,
         node |-> NoLoc, sentinel |-> FALSE, from |-> <<>>, het |-> <<>>,
         preName |-> [t \in Texts |-> <<>>], log |-> <<>>]

\* the record of an operation applied to `a` in the current state
Op(name) == [NoOp EXCEPT !.op = name, !.n = last.n + 1,
                         !.pre = Snap(Heap(mem), a), !.preb = Snap(Heap(mem), b),
                         !.presize = Value_size(Heap(mem), a),
                         !.preGet = IF Value_isArray(a)
                                    THEN [j \in AllIndices |-> GetIdx(Heap(mem), a, j)]
                                    ELSE NoOp.preGet,
                         !.preName = [t \in Texts |-> GetName(Heap(mem), a, t)],
                         !.preMember = Members(Heap(mem), a),
                         !.log = last.log,
                         !.str = last.str, !.in = last.in]

Init ==
    /\ mem = EmptyMem
    /\ a = null
    /\ b = null
    /\ k1 = CZString_index(0)
    /\ k2 = CZString_index(0)
    /\ path = <<>>
    /\ it1 = Iterator_default
    /\ it2 = Iterator_default
    /\ last = NoOp
    /\ fault = FALSE

\* the program is running: no undefined behaviour, no failed assert
Running == ~fault /\ last.assertion /\ last.n < MaxSteps

\* the heap after an operation, unless it ran out of the model's cells
Commit(h) == ~h.oom /\ mem' = h.cells /\ fault' = h.fault

----------------------------------------------------------------------------
(* Arrays *)

\* a[i] = n;
ArrayAssign ==
    /\ Running /\ Value_isArray(a)
    /\ \E i \in Indices, n \in ElemInts :
       \E r \in {Value_at_index(Heap(mem), a, i)} :
       \E x \in {Value_assign_temp(r.h, Load(r.h, r.loc), Value_int(n))} :
       \E h2 \in {Store(x.h, r.loc, x.self)} :
              /\ Commit(h2)
              /\ a' = r.self
              /\ last' = [Op("index_assign") EXCEPT !.i = i,
                              !.x = Snap(h2, Value_int(n))]
    /\ UNCHANGED <<b, k1, k2, path, it1, it2>>

\* a[i];
ArrayAccess ==
    /\ Running /\ Value_isArray(a)
    /\ \E i \in Indices :
       \E r \in {Value_at_index(Heap(mem), a, i)} :
              /\ Commit(r.h)
              /\ a' = r.self
              /\ last' = [Op("index_access") EXCEPT !.i = i,
                              !.found = GetIdx(Heap(mem), a, i) # <<>>,
                              !.ret = <<Snap(r.h, Load(r.h, r.loc))>>]
    /\ UNCHANGED <<b, k1, k2, path, it1, it2>>

\* a.append(n);
ArrayAppend ==
    /\ Running /\ Value_isArray(a)
    /\ \E n \in ElemInts :
       \E r \in {Value_append(Heap(mem), a, Value_int(n))} :
              /\ Commit(r.h)
              /\ a' = r.self
              /\ last' = [Op("append") EXCEPT !.x = Snap(r.h, Value_int(n))]
    /\ UNCHANGED <<b, k1, k2, path, it1, it2>>

\* a.resize(n);
ArrayResize ==
    /\ Running /\ Value_isArray(a)
    /\ \E n \in AllIndices :
       \E r \in {Value_resize(Heap(mem), a, n)} :
              /\ Commit(r.h)
              /\ a' = r.self
              /\ last' = [Op("resize") EXCEPT !.i = n, !.assertion = r.assertion]
    /\ UNCHANGED <<b, k1, k2, path, it1, it2>>

\* a.clear();
ArrayClear ==
    /\ Running /\ Value_isArray(a)
    /\ \E h \in {Value_clear(Heap(mem), a)} : Commit(h)
    /\ last' = Op("clear")
    /\ UNCHANGED <<a, b, k1, k2, path, it1, it2>>

NextArray == ArrayAssign \/ ArrayAccess \/ ArrayAppend \/ ArrayResize \/ ArrayClear

SpecArray == Init /\ [][NextArray]_vars

----------------------------------------------------------------------------
(* Claims about arrays *)

\* C1: mutating index access addresses the entry stored at exactly that
\* index: after a[i] = x, tryGet(i) yields x and what tryGet(j) yields for
\* every other index j is what it yielded before
C1_IndexAccessExact ==
    last.op = "index_assign" =>
        /\ GetIdx(Heap(mem), a, last.i) = <<last.x>>
        /\ \A j \in AllIndices \ {last.i} : GetIdx(Heap(mem), a, j) = last.preGet[j]

\* C3: append(v) on an array of size n stores v at index n, makes size()
\* n+1 and leaves the entries at indices < n unchanged
C3_AppendAtEnd ==
    last.op = "append" =>
        /\ Value_size(Heap(mem), a) = last.presize + 1
        /\ GetIdx(Heap(mem), a, last.presize) = <<last.x>>
        /\ \A j \in AllIndices : j < last.presize =>
              GetIdx(Heap(mem), a, j) = last.preGet[j]

\* C4: resize(n) leaves the tag Array and size() = n, and the assertion
\* size() == newSize of the shrinking branch does not fail
C4_ResizeSetsSize ==
    last.op = "resize" =>
        /\ a.type_ = arrayValue
        /\ Value_size(Heap(mem), a) = last.i
        /\ last.assertion

----------------------------------------------------------------------------
(* Keys *)

\* k = CZString(index);  (k is k1 or k2; its old value is destroyed)
KeyFromIndex ==
    /\ Running
    /\ \E w \in {1, 2}, index \in Indices :
       \E old \in {IF w = 1 THEN k1 ELSE k2} :
       \E new \in {CZString_index(index)} :
       \E h \in {CZString_dtor(Heap(mem), old)} :
              /\ Commit(h)
              /\ k1' = IF w = 1 THEN new ELSE k1
              /\ k2' = IF w = 2 THEN new ELSE k2
              /\ last' = [Op("key_index") EXCEPT !.i = index]
    /\ UNCHANGED <<a, b, path, it1, it2>>

\* k = CZString(cstr, allocate);  cstr a string of static storage
KeyFromCStr ==
    /\ Running
    /\ \E w \in {1, 2}, t \in Texts,
          allocate \in {noDuplication, duplicate, duplicateOnCopy} :
       \E old \in {IF w = 1 THEN k1 ELSE k2} :
       \E h \in {CZString_dtor(Heap(mem), old)} :
       \E new \in {CZString_cstr(h, StaticPtr(t), allocate)} :
              /\ Commit(new.h)
              /\ k1' = IF w = 1 THEN new.k ELSE k1
              /\ k2' = IF w = 2 THEN new.k ELSE k2
              /\ last' = [Op("key_cstr") EXCEPT !.key = t, !.i = allocate]
    /\ UNCHANGED <<a, b, path, it1, it2>>

\* k2 = CZString(k1);
KeyCopy ==
    /\ Running
    /\ \E h \in {CZString_dtor(Heap(mem), k2)} :
       \E new \in {CZString_copy(h, k1)} :
           /\ Commit(new.h)
           /\ k2' = new.k
           /\ last' = Op("key_copy")
    /\ UNCHANGED <<a, b, k1, path, it1, it2>>

\* k1 < k2, k2 < k1, k1 == k2, and whether a store holds them to be one key
\* (neither CZStringCompare()(k1, k2) nor CZStringCompare()(k2, k1))
KeyCompare ==
    /\ Running
    /\ last.op # "key_compare"
    /\ last' = [Op("key_compare") EXCEPT
                   !.lt = CZString_less(Heap(mem), k1, k2),
                   !.gt = CZString_less(Heap(mem), k2, k1),
                   !.eq = CZString_eq(Heap(mem), k1, k2),
                   !.same = /\ ~CZStringCompare_kk(Heap(mem), k1, k2)
                            /\ ~CZStringCompare_kk(Heap(mem), k2, k1)]
    /\ UNCHANGED <<mem, fault, a, b, k1, k2, path, it1, it2>>

NextKey == KeyFromIndex \/ KeyFromCStr \/ KeyCopy \/ KeyCompare

SpecKey == Init /\ [][NextKey]_vars

\* a key made by CZString(ArrayIndex) has no string; a key made from a
\* C string has one
IsIndexKey(k) == k.cstr_ = 0
IsNameKey(k) == k.cstr_ # 0

\* C2: Index keys are ordered and equated numerically, and an Index key is
\* never equal to a Name key, nor the same key for a store
C2_IndexKeysNumeric ==
    last.op = "key_compare" =>
        /\ (IsIndexKey(k1) /\ IsIndexKey(k2)) =>
              /\ last.lt <=> (k1.index_ < k2.index_)
              /\ last.eq <=> (k1.index_ = k2.index_)
              /\ last.same <=> (k1.index_ = k2.index_)
        /\ (IsIndexKey(k1) /\ IsNameKey(k2)) \/ (IsNameKey(k1) /\ IsIndexKey(k2)) =>
              /\ ~last.eq
              /\ ~last.same

----------------------------------------------------------------------------
(* Objects *)

Picks == 0..Len(StaticTable)

\* a[name] = n;  with a std::string_view name
ObjectAssign ==
    /\ Running /\ Value_isObject(a)
    /\ \E t \in Texts, n \in ElemInts, pick \in Picks :
       \E r \in {Value_at_sv(Heap(mem), a, StringView(t), pick)} :
       \E x \in {Value_assign_temp(r.h, Load(r.h, r.loc), Value_int(n))} :
       \E h2 \in {IF r.h.fault THEN r.h ELSE Store(x.h, r.loc, x.self)} :
              /\ r.pickok
              /\ Commit(h2)
              /\ a' = r.self
              /\ last' = [Op("name_assign") EXCEPT !.key = t,
                              !.x = Snap(h2, Value_int(n)),
                              !.log = Append(last.log, t)]
    /\ UNCHANGED <<b, k1, k2, path, it1, it2>>

\* a[name];  with a std::string_view name
ObjectAccess ==
    /\ Running /\ Value_isObject(a)
    /\ \E t \in Texts, pick \in Picks :
       \E r \in {Value_at_sv(Heap(mem), a, StringView(t), pick)} :
              /\ r.pickok
              /\ Commit(r.h)
              /\ a' = r.self
              /\ last' = [Op("name_access") EXCEPT !.key = t,
                              !.ret = IF r.h.fault THEN <<>>
                                      ELSE <<Snap(r.h, Load(r.h, r.loc))>>,
                              !.log = Append(last.log, t)]
    /\ UNCHANGED <<b, k1, k2, path, it1, it2>>

\* a[StaticString(name)] = n;
ObjectStaticAssign ==
    /\ Running /\ Value_isObject(a)
    /\ \E t \in Texts, n \in ElemInts :
       \E r \in {Value_at_static(Heap(mem), a, StaticPtr(t))} :
       \E x \in {Value_assign_temp(r.h, Load(r.h, r.loc), Value_int(n))} :
       \E h2 \in {Store(x.h, r.loc, x.self)} :
              /\ Commit(h2)
              /\ a' = r.self
              /\ last' = [Op("static_assign") EXCEPT !.key = t,
                              !.x = Snap(h2, Value_int(n)),
                              !.log = Append(last.log, t)]
    /\ UNCHANGED <<b, k1, k2, path, it1, it2>>

\* a.removeMember(name);  the Value returned is destroyed after it is read
ObjectRemove ==
    /\ Running /\ Value_isObject(a)
    /\ \E t \in Texts :
       \E r \in {Value_removeMember(Heap(mem), a, StringView(t))} :
       \E h \in {Value_dtor(r.h, r.old)} :
              /\ Commit(h)
              /\ last' = [Op("remove") EXCEPT !.key = t,
                              !.ret = IF r.h.fault THEN <<>> ELSE <<Snap(r.h, r.old)>>]
    /\ UNCHANGED <<a, b, k1, k2, path, it1, it2>>

\* for (it = a.begin(); it != a.end(); ++it) it.memberName()
ObjectIterate ==
    /\ Running /\ Value_isObject(a)
    /\ last.op # "iterate"
    /\ last' = [Op("iterate") EXCEPT !.names = MemberNames(Heap(mem), a)]
    /\ UNCHANGED <<mem, fault, a, b, k1, k2, path, it1, it2>>

NextObject ==
    ObjectAssign \/ ObjectAccess \/ ObjectStaticAssign \/ ObjectRemove \/ ObjectIterate

SpecObject == Init /\ [][NextObject]_vars

----------------------------------------------------------------------------
(* Claims about objects *)

NullSnap == Snap(Heap(EmptyMem), null)

\* C5: name access a[name] on Null gives an Object with exactly one member;
\* by an absent name it inserts exactly one Null member under that name
\* (size() grows by 1, the other members keep names and values, isMember
\* is false before and true after) and returns it; by a present name it
\* returns the existing member and changes nothing
C5_NameAccessInserts ==
    last.op = "name_access" =>
        /\ ~fault
        /\ a.type_ = objectValue
        /\ last.pre.t = nullValue => Value_size(Heap(mem), a) = 1
        /\ last.key \notin last.preMember =>
              /\ Value_size(Heap(mem), a) = last.presize + 1
              /\ last.key \in Members(Heap(mem), a)
              /\ last.ret = <<NullSnap>>
              /\ GetName(Heap(mem), a, last.key) = <<NullSnap>>
              /\ \A t \in Texts \ {last.key} :
                    GetName(Heap(mem), a, t) = last.preName[t]
        /\ last.key \in last.preMember =>
              /\ last.ret = last.preName[last.key]
              /\ Snap(Heap(mem), a) = last.pre

\* C6: removeMember(key) on an Object that has the member returns the
\* member's previous value and removes only that entry (isMember(key) is
\* false afterwards, every other member is unchanged, the tag is Object);
\* on Null or for an absent key it returns Null and changes nothing
C6_RemoveMemberOnlyThat ==
    last.op = "remove" =>
        /\ ~fault
        /\ last.key \in last.preMember =>
              /\ last.ret = last.preName[last.key]
              /\ a.type_ = objectValue
              /\ last.key \notin Members(Heap(mem), a)
              /\ Value_size(Heap(mem), a) = last.presize - 1
              /\ \A t \in Texts \ {last.key} :
                    GetName(Heap(mem), a, t) = last.preName[t]
        /\ last.key \notin last.preMember =>
              /\ last.ret = <<NullSnap>>
              /\ Snap(Heap(mem), a) = last.pre

\* s comes before t in byte-wise order
BytesLess(s, t) ==
    \E i \in 1..(Len(t)) :
        /\ \A j \in 1..(i - 1) : j <= Len(s) /\ s[j] = t[j]
        /\ (i > Len(s) \/ s[i] < t[i])

\* C9: stepping an iterator from begin() to end() visits every current
\* member exactly once, in ascending byte-wise order of the names,
\* whatever the order of the insertions and removals before
C9_IterationSorted ==
    last.op = "iterate" =>
        /\ Len(last.names) = Value_size(Heap(mem), a)
        /\ \A i \in 1..(Len(last.names) - 1) :
              BytesLess(last.names[i], last.names[i + 1])
        /\ \A t \in Members(Heap(mem), a) :
              \E i \in 1..Len(last.names) : last.names[i] = t

\* "b", "a", "c" were inserted in this order and the iteration gave
\* "a", "b", "c"
C9_Witness ==
    /\ last.op = "iterate"
    /\ last.log = << <<98>>, <<97>>, <<99>> >>
    /\ last.names = << <<97>>, <<98>>, <<99>> >>

----------------------------------------------------------------------------
(* Construction by the calling program.  A constructor call is given by    *)
(* [kind, n, t]: which constructor, its number and its text.               *)

Ctor(kind, n, t) == [kind |-> kind, n |-> n, t |-> t]

\* the double n; NaN is its own value
Double(n) == [nan |-> FALSE, v |-> n]
NaN == [nan |-> TRUE, v |-> 0]

\* Value x(args): the heap and the Value constructed
Construct(h, c) ==
    CASE c.kind = "null"   -> [h |-> h, v |-> null]
      [] c.kind = "int"    -> [h |-> h, v |-> Value_int(c.n)]
      [] c.kind = "uint"   -> [h |-> h, v |-> Value_uint(c.n)]
      [] c.kind = "real"   -> [h |-> h, v |-> Value_double(Double(c.n))]
      [] c.kind = "nan"    -> [h |-> h, v |-> Value_double(NaN)]
      [] c.kind = "bool"   -> [h |-> h, v |-> Value_bool(c.n = 1)]
      [] c.kind = "static" -> [h |-> h, v |-> Value_static(StaticPtr(c.t))]
      [] c.kind = "cstr"   -> Value_cstr(h, c.t)
      [] c.kind = "sv"     -> Value_sv(h, StringView(c.t))
      [] c.kind = "type"   -> Value_type(h, c.n)

\* { Value w(args); }  w is a or b: the Value the name stood for before has
\* gone out of scope (its destructor has run)
New(w, ctors) ==
    /\ Running
    /\ \E c \in ctors :
       \E h0 \in {Value_dtor(Heap(mem), IF w = "a" THEN a ELSE b)} :
       \E r \in {Construct(h0, c)} :
              /\ Commit(r.h)
              /\ a' = IF w = "a" THEN r.v ELSE a
              /\ b' = IF w = "b" THEN r.v ELSE b
              /\ last' = [Op("new") EXCEPT !.w = w]
    /\ UNCHANGED <<k1, k2, path, it1, it2>>

----------------------------------------------------------------------------
(* Copy and move *)

CopyTexts == {StaticTable[2], StaticTable[3]}

CopyCtors ==
    {Ctor("int", n, <<>>) : n \in ElemInts}
    \cup {Ctor(kind, 0, t) : kind \in {"static", "cstr"}, t \in CopyTexts}
    \cup {Ctor("type", n, <<>>) : n \in {arrayValue, objectValue}}

CopyNewA == New("a", CopyCtors)
CopyNewB == New("b", CopyCtors)

\* { Value b(a); }
CopyConstruct ==
    /\ Running
    /\ \E h0 \in {Value_dtor(Heap(mem), b)} :
       \E r \in {Value_copy(h0, a)} :
              /\ Commit(r.h)
              /\ b' = r.v
              /\ last' = Op("copy_construct")
    /\ UNCHANGED <<a, k1, k2, path, it1, it2>>

\* b = a;
CopyAssign ==
    /\ Running
    /\ \E r \in {Value_assign(Heap(mem), b, a)} :
              /\ Commit(r.h)
              /\ b' = r.self
              /\ last' = Op("copy_assign")
    /\ UNCHANGED <<a, k1, k2, path, it1, it2>>

\* { Value b(std::move(a)); }
MoveConstruct ==
    /\ Running
    /\ \E h0 \in {Value_dtor(Heap(mem), b)} :
       \E r \in {Value_move(a)} :
              /\ Commit(h0)
              /\ b' = r.self
              /\ a' = r.other
              /\ last' = Op("move_construct")
    /\ UNCHANGED <<k1, k2, path, it1, it2>>

\* b = std::move(a);
MoveAssign ==
    /\ Running
    /\ \E r \in {Value_assign_move(b, a)} :
              /\ b' = r.self
              /\ a' = r.other
              /\ last' = Op("move_assign")
    /\ UNCHANGED <<mem, fault, k1, k2, path, it1, it2>>

\* a.swap(b);
SwapValues ==
    /\ Running
    /\ \E r \in {Value_swap(a, b)} :
              /\ a' = r.x
              /\ b' = r.y
              /\ last' = Op("swap")
    /\ UNCHANGED <<mem, fault, k1, k2, path, it1, it2>>

\* w[StaticString(name)] = n;  w is a or b
MutateMember ==
    /\ Running
    /\ \E w \in {"a", "b"}, t \in CopyTexts, n \in ElemInts :
       \E self \in {IF w = "a" THEN a ELSE b} :
       Value_isObject(self) /\
       \E r \in {Value_at_static(Heap(mem), self, StaticPtr(t))} :
       \E x \in {Value_assign_temp(r.h, Load(r.h, r.loc), Value_int(n))} :
       \E h2 \in {Store(x.h, r.loc, x.self)} :
              /\ Commit(h2)
              /\ a' = IF w = "a" THEN r.self ELSE a
              /\ b' = IF w = "b" THEN r.self ELSE b
              /\ last' = [Op("mutate") EXCEPT !.w = w, !.key = t]
    /\ UNCHANGED <<k1, k2, path, it1, it2>>

\* a[StaticString(name)] = b;  a copy of b becomes a member of a
MutateNest ==
    /\ Running
    /\ \E t \in CopyTexts :
       Value_isObject(a) /\
       \E r \in {Value_at_static(Heap(mem), a, StaticPtr(t))} :
       \E x \in {Value_assign(r.h, Load(r.h, r.loc), b)} :
       \E h2 \in {Store(x.h, r.loc, x.self)} :
              /\ Commit(h2)
              /\ a' = r.self
              /\ last' = [Op("mutate") EXCEPT !.w = "a", !.key = t]
    /\ UNCHANGED <<b, k1, k2, path, it1, it2>>

\* w.removeMember(name);
MutateRemove ==
    /\ Running
    /\ \E w \in {"a", "b"}, t \in CopyTexts :
       \E self \in {IF w = "a" THEN a ELSE b} :
       Value_isObject(self) /\
       \E r \in {Value_removeMember(Heap(mem), self, StringView(t))} :
       \E h \in {Value_dtor(r.h, r.old)} :
              /\ Commit(h)
              /\ last' = [Op("mutate") EXCEPT !.w = w, !.key = t]
    /\ UNCHANGED <<a, b, k1, k2, path, it1, it2>>

\* w.append(n);
MutateAppend ==
    /\ Running
    /\ \E w \in {"a", "b"}, n \in ElemInts :
       \E self \in {IF w = "a" THEN a ELSE b} :
       Value_isArray(self) /\
       \E r \in {Value_append(Heap(mem), self, Value_int(n))} :
              /\ Commit(r.h)
              /\ a' = IF w = "a" THEN r.self ELSE a
              /\ b' = IF w = "b" THEN r.self ELSE b
              /\ last' = [Op("mutate") EXCEPT !.w = w]
    /\ UNCHANGED <<k1, k2, path, it1, it2>>

\* w.clear();
MutateClear ==
    /\ Running
    /\ \E w \in {"a", "b"} :
       \E self \in {IF w = "a" THEN a ELSE b} :
       self.type_ \in {arrayValue, objectValue} /\
       \E h \in {Value_clear(Heap(mem), self)} :
              /\ Commit(h)
              /\ last' = [Op("mutate") EXCEPT !.w = w]
    /\ UNCHANGED <<a, b, k1, k2, path, it1, it2>>

\* w = Value(text);  a String node is given another text
MutateString ==
    /\ Running
    /\ \E w \in {"a", "b"}, t \in CopyTexts :
       \E self \in {IF w = "a" THEN a ELSE b} :
       self.type_ = stringValue /\
       \E c \in {Value_cstr(Heap(mem), t)} :
       \E x \in {Value_assign_temp(c.h, self, c.v)} :
              /\ Commit(x.h)
              /\ a' = IF w = "a" THEN x.self ELSE a
              /\ b' = IF w = "b" THEN x.self ELSE b
              /\ last' = [Op("mutate") EXCEPT !.w = w, !.key = t]
    /\ UNCHANGED <<k1, k2, path, it1, it2>>

NextCopy ==
    \/ CopyNewA \/ CopyNewB
    \/ CopyConstruct \/ CopyAssign \/ MoveConstruct \/ MoveAssign \/ SwapValues
    \/ MutateMember \/ MutateNest \/ MutateRemove \/ MutateAppend \/ MutateClear \/ MutateString

SpecCopy == Init /\ [][NextCopy]_vars

\* C7: after copy construction or copy assignment copy == v holds and v is
\* what it was; a later mutation of the copy's Array, Object or String
\* contents leaves v as it was, and a mutation of v leaves the copy as it was
C7_CopyIndependence ==
    /\ last.op \in {"copy_construct", "copy_assign"} =>
          /\ ~fault
          /\ Value_eq(Heap(mem), b, a)
          /\ Snap(Heap(mem), a) = last.pre
    /\ last.op = "mutate" =>
          /\ last.w = "b" => Snap(Heap(mem), a) = last.pre
          /\ last.w = "a" => Snap(Heap(mem), b) = last.preb

\* C10 as stated: after move construction or move assignment from s (a)
\* into d (b), d holds the tag and payload s had and s is a Null node,
\* whatever d held before
C10_MoveLeavesNull ==
    last.op \in {"move_construct", "move_assign"} =>
        /\ Snap(Heap(mem), b) = last.pre
        /\ Snap(Heap(mem), a) = NullSnap

\* C10 amended: after move construction d holds the tag and payload s had
\* and s is Null; after move assignment d holds the tag and payload s had
\* and s holds the tag and payload d had before (the two are swapped), so
\* s is Null only when d was Null
C10_MoveSwaps ==
    /\ last.op = "move_construct" =>
          /\ Snap(Heap(mem), b) = last.pre
          /\ Snap(Heap(mem), a) = NullSnap
    /\ last.op = "move_assign" =>
          /\ Snap(Heap(mem), b) = last.pre
          /\ Snap(Heap(mem), a) = last.preb

\* a String has been move-assigned into a node that held an Int, and the
\* source now holds that Int
C10_Witness ==
    /\ last.op = "move_assign"
    /\ last.pre.t = stringValue
    /\ last.preb.t = intValue
    /\ b.type_ = stringValue
    /\ a.type_ = intValue

----------------------------------------------------------------------------
(* Ownership of texts and stores *)

RECURSIVE Nodes(_, _)
\* the Value objects of the tree under v, v included
Nodes(h, v) ==
    {v} \cup
    (IF v.type_ \in {arrayValue, objectValue} /\ v.value_.map_ \in Addrs
     THEN UNION {Nodes(h, Ents(h, v)[i].second) : i \in 1..Len(Ents(h, v))}
     ELSE {})

\* the live Value objects of the program
LiveNodes == Nodes(Heap(mem), a) \cup Nodes(Heap(mem), b)

\* the keys of the live stores
LiveKeys ==
    UNION {{Ents(Heap(mem), v)[i].first : i \in 1..Len(Ents(Heap(mem), v))} :
           v \in {w \in LiveNodes : w.type_ \in {arrayValue, objectValue}
                                     /\ w.value_.map_ \in Addrs}}

\* p is a malloc'ed string that has not been released
LiveText(p) == p \in Addrs /\ mem[p].kind = "str"

\* C11: each String node's owned flag is true exactly when its text is a
\* heap duplicate; no borrowed text is ever released and no owned duplicate
\* is released twice (no undefined behaviour), and none is leaked (every
\* live duplicate is the text of a node that owns it, or of a key)
C11_OwnedFlagExact ==
    /\ ~fault
    /\ \A v \in LiveNodes :
          v.type_ = stringValue => (v.allocated_ <=> LiveText(v.value_.string_))
    /\ \A p \in Addrs :
          LiveText(p) =>
              \/ \E v \in LiveNodes : /\ v.type_ = stringValue /\ v.allocated_
                                       /\ v.value_.string_ = p
              \/ \E k \in LiveKeys : k.cstr_ = p /\ k.index_ = duplicate

RECURSIVE Handles(_, _)
RECURSIVE EntHandles(_, _)
\* the store handles held by the nodes of the tree under v, one per node
\* that has one
Handles(h, v) ==
    IF v.value_.map_ = 0 THEN <<>>
    ELSE <<v.value_.map_>> \o
         (IF v.value_.map_ \in Addrs /\ h.cells[v.value_.map_].kind = "map"
          THEN EntHandles(h, Ents(h, v)) ELSE <<>>)
EntHandles(h, ents) ==
    IF ents = <<>> THEN <<>>
    ELSE Handles(h, Head(ents).second) \o EntHandles(h, Tail(ents))

\* the store handles held by the live nodes
LiveHandles == Handles(Heap(mem), a) \o Handles(Heap(mem), b)

\* C12: a node has a store handle iff its tag is Array or Object; no two
\* live nodes hold the same handle; every handle held is that of a store
\* not destroyed and every store not destroyed is held by a live node (a
\* store is destroyed when its owner is, and not before); no store is
\* destroyed twice
C12_StoreExclusive ==
    /\ \A p \in Addrs : mem[p].kind # "twice"
    /\ ~fault =>
          /\ \A v \in LiveNodes :
                (v.value_.map_ # 0) <=> (v.type_ \in {arrayValue, objectValue})
          /\ \A i, j \in 1..Len(LiveHandles) :
                LiveHandles[i] = LiveHandles[j] => i = j
          /\ \A p \in Addrs :
                (mem[p].kind = "map") <=> (\E i \in 1..Len(LiveHandles) : LiveHandles[i] = p)

\* an Object with a member has been copy-assigned to a node that held an
\* Array: the two hold different stores and the Array's store is destroyed
C12_Witness ==
    /\ last.op = "copy_assign"
    /\ ~fault
    /\ last.preb.t = arrayValue
    /\ a.type_ = objectValue /\ b.type_ = objectValue
    /\ a.value_.map_ # b.value_.map_
    /\ Len(Ents(Heap(mem), b)) = 1
    /\ Cardinality({p \in Addrs : mem[p].kind = "map"}) = 2
    /\ \E p \in Addrs : mem[p].kind = "freed" /\ p \notin {a.value_.map_, b.value_.map_}

----------------------------------------------------------------------------
(* Copy assignment when memory runs out *)

\* b = a;  in a build with or without JSONCPP_ENABLE_ASSERTS, where malloc
\* and operator new fail after `left` allocations
AssignFailing ==
    /\ Running
    /\ \E left \in 0..MaxLeft, checked \in BOOLEAN :
       \E r \in {Value_assign(HeapFailing(mem, left, checked), b, a)} :
              /\ Commit(r.h)
              /\ b' = r.self
              /\ last' = [Op("assign_failing") EXCEPT !.thrown = r.h.thrown,
                              !.checked = checked, !.i = r.h.left]
    /\ UNCHANGED <<a, k1, k2, path, it1, it2>>

NextAlloc ==
    \/ CopyNewA \/ CopyNewB \/ MutateMember \/ MutateNest \/ AssignFailing

SpecAlloc == Init /\ [][NextAlloc]_vars

\* C13: target = source either completes with target == source or leaves
\* the target with the tag and contents it had before
C13_AssignAllOrNothing ==
    last.op = "assign_failing" =>
        \/ ~last.thrown /\ Value_eq(Heap(mem), b, a)
        \/ Snap(Heap(mem), b) = last.preb

----------------------------------------------------------------------------
(* Comparison of scalar nodes *)

ScalarCtors ==
    {Ctor("null", 0, <<>>), Ctor("nan", 0, <<>>), Ctor("type", stringValue, <<>>)}
    \cup {Ctor(kind, n, <<>>) : kind \in {"int", "real"}, n \in {-1, 0, 1}}
    \cup {Ctor("uint", n, <<>>) : n \in {0, 1}}
    \cup {Ctor("bool", n, <<>>) : n \in {0, 1}}
    \cup {Ctor(kind, 0, t) : kind \in {"static", "cstr", "sv"},
                             t \in {StaticTable[1], StaticTable[2], StaticTable[3]}}

ScalarNewA == New("a", ScalarCtors)
ScalarNewB == New("b", ScalarCtors)

\* a < b, a <= b, a >= b, a > b, a == b, a != b, a.compare(b)
Compare ==
    /\ Running
    /\ last.op # "compare"
    /\ last' = [Op("compare") EXCEPT
                   !.lt = Value_less(Heap(mem), a, b),
                   !.le = Value_le(Heap(mem), a, b),
                   !.ge = Value_ge(Heap(mem), a, b),
                   !.gt = Value_gt(Heap(mem), a, b),
                   !.eq = Value_eq(Heap(mem), a, b),
                   !.ne = Value_ne(Heap(mem), a, b),
                   !.cmp = Value_compare(Heap(mem), a, b)]
    /\ UNCHANGED <<mem, fault, a, b, k1, k2, path, it1, it2>>

NextCmp == ScalarNewA \/ ScalarNewB \/ Compare

SpecCmp == Init /\ [][NextCmp]_vars

\* the fixed order of the tags: Null < Int < UInt < Real < String < Bool <
\* Array < Object
TagOrder == <<nullValue, intValue, uintValue, realValue, stringValue, booleanValue,
              arrayValue, objectValue>>
TagRank(t) == CHOOSE i \in 1..Len(TagOrder) : TagOrder[i] = t

\* exactly one of a<b, a==b, b<a, and the other operators agree with it
Trichotomy ==
    /\ (last.lt /\ ~last.eq /\ ~last.gt) \/ (~last.lt /\ last.eq /\ ~last.gt)
          \/ (~last.lt /\ ~last.eq /\ last.gt)
    /\ last.le <=> (last.lt \/ last.eq)
    /\ last.ge <=> (last.gt \/ last.eq)
    /\ last.ne <=> ~last.eq
    /\ last.cmp = (IF last.lt THEN -1 ELSE IF last.gt THEN 1 ELSE 0)

\* different tags: the tag order alone decides
TagsDecide ==
    a.type_ # b.type_ =>
        /\ last.lt <=> (TagRank(a.type_) < TagRank(b.type_))
        /\ last.gt <=> (TagRank(a.type_) > TagRank(b.type_))

\* two Real nodes of which at least one is NaN
IsNaN(v) == v.type_ = realValue /\ v.value_.real_.nan
NaNPair == a.type_ = realValue /\ b.type_ = realValue /\ (IsNaN(a) \/ IsNaN(b))

\* C8 as stated: for any two nodes of scalar kinds exactly one of a<b,
\* a==b, b<a holds, <=, >=, >, != and compare agree with it, and when the
\* tags differ the tag order alone decides
C8_OrderingTotal ==
    last.op = "compare" => Trichotomy /\ TagsDecide

\* C8 amended: the same for any two scalar nodes that are not two Reals
\* with a NaN among them; for two Reals with a NaN among them none of a<b,
\* a==b, b<a holds, a<=b, a>=b and a!=b hold and compare returns 0
C8_OrderingTotalButNaN ==
    last.op = "compare" =>
        /\ ~NaNPair => Trichotomy
        /\ TagsDecide
        /\ NaNPair => /\ ~last.lt /\ ~last.eq /\ ~last.gt
                      /\ last.le /\ last.ge /\ last.ne
                      /\ last.cmp = 0

\* a String and a Bool have been compared, and the String came first
C8_Witness ==
    /\ last.op = "compare"
    /\ a.type_ = stringValue /\ a.value_.string_ # 0
    /\ b.type_ = booleanValue /\ ~b.value_.bool_
    /\ last.lt /\ last.cmp = -1

----------------------------------------------------------------------------
(* 64-bit integers.  Where the width of an integer matters (the            *)
(* conversions), a number x is written wide, as <<q2, q1, q0>> with        *)
(* x = q2 * 2^62 + q1 * 2^31 + q0 and q1, q0 in 0..2^31-1; q2 carries the  *)
(* sign.  Wide numbers are ordered as their digits are, first digit first. *)

\* 2^31 - 1, the largest digit
WideDigit == 2147483647

\* the wide form of a number n with -2^31 < n < 2^31
Wide(n) == IF n >= 0 THEN <<0, 0, n>> ELSE <<-1, WideDigit, (WideDigit + n) + 1>>

WideLess(x, y) ==
    \/ x[1] < y[1]
    \/ x[1] = y[1] /\ x[2] < y[2]
    \/ x[1] = y[1] /\ x[2] = y[2] /\ x[3] < y[3]
WideLeq(x, y) == x = y \/ WideLess(x, y)

\* x + 1 and x - 1
WideSucc(x) ==
    IF x[3] < WideDigit THEN <<x[1], x[2], x[3] + 1>>
    ELSE IF x[2] < WideDigit THEN <<x[1], x[2] + 1, 0>>
    ELSE <<x[1] + 1, 0, 0>>
WidePred(x) ==
    IF x[3] > 0 THEN <<x[1], x[2], x[3] - 1>>
    ELSE IF x[2] > 0 THEN <<x[1], x[2] - 1, WideDigit>>
    ELSE <<x[1] - 1, WideDigit, WideDigit>>

\* -x
WideNeg(x) ==
    IF x[3] = 0 /\ x[2] = 0 THEN <<-x[1], 0, 0>>
    ELSE IF x[3] = 0 THEN <<-x[1] - 1, (WideDigit - x[2]) + 1, 0>>
    ELSE <<-x[1] - 1, WideDigit - x[2], (WideDigit - x[3]) + 1>>

\* std::numeric_limits of Int, UInt (32 bits), Int64 and UInt64
minInt == <<-1, WideDigit, 0>>
maxInt == <<0, 0, WideDigit>>
maxUInt == <<0, 1, WideDigit>>
minInt64 == <<-2, 0, 0>>
maxInt64 == <<1, WideDigit, WideDigit>>
maxUInt64 == <<3, WideDigit, WideDigit>>

\* Int(x), UInt(x): the low 32 bits of x, read as signed and as unsigned
ToInt(x) == IF x[2] % 2 = 1 THEN <<-1, WideDigit, x[3]>> ELSE <<0, 0, x[3]>>
ToUInt(x) == <<0, x[2] % 2, x[3]>>
\* the 64 bits of uint_ read as int_, and the reverse
ToInt64(x) == IF x[1] >= 2 THEN <<x[1] - 4, x[2], x[3]>> ELSE x
ToUInt64(x) == IF x[1] < 0 THEN <<x[1] + 4, x[2], x[3]>> ELSE x

RECURSIVE DigitBits(_, _)
\* the n low bits of the digit d, lowest first
DigitBits(d, n) == IF n = 0 THEN <<>> ELSE <<d % 2>> \o DigitBits(d \div 2, n - 1)

\* the bits of a wide number x >= 0 (x <= 2^64), lowest first
WideBits(x) == DigitBits(x[3], 31) \o DigitBits(x[2], 31) \o DigitBits(x[1], 3)

RECURSIVE BitsDigit(_)
BitsDigit(bits) == IF bits = <<>> THEN 0 ELSE Head(bits) + 2 * BitsDigit(Tail(bits))

BitsWide(bits) == <<BitsDigit(SubSeq(bits, 63, 65)), BitsDigit(SubSeq(bits, 32, 62)),
                    BitsDigit(SubSeq(bits, 1, 31))>>

RECURSIVE BitsSucc(_)
\* bits + 1
BitsSucc(bits) ==
    IF bits = <<>> THEN <<>>
    ELSE IF Head(bits) = 0 THEN <<1>> \o Tail(bits)
    ELSE <<0>> \o BitsSucc(Tail(bits))

\* x >= 0 rounded to the nearest number of `mant` significant bits, ties to
\* the even one: the value of static_cast<double>(x) for mant = 53 and of
\* static_cast<float>(x) for mant = 24
RoundMagnitude(x, mant) ==
    LET bits == WideBits(x)
        ones == {i \in 1..Len(bits) : bits[i] = 1}
        top  == IF ones = {} THEN 0 ELSE CHOOSE i \in ones : \A j \in ones : j <= i
        d    == top - mant
    IN  IF d <= 0 THEN x
        ELSE LET kept   == SubSeq(bits, d + 1, Len(bits))
                 guard  == bits[d] = 1
                 sticky == \E i \in 1..(d - 1) : bits[i] = 1
                 up     == guard /\ (sticky \/ kept[1] = 1)
             IN  BitsWide([i \in 1..d |-> 0] \o (IF up THEN BitsSucc(kept) ELSE kept))

\* static_cast<double>(x) / static_cast<float>(x) of an integer x
RoundTo(x, mant) ==
    IF x[1] < 0 THEN WideNeg(RoundMagnitude(WideNeg(x), mant)) ELSE RoundMagnitude(x, mant)

\* the double of value x (a wide number)
WideDouble(x) == [nan |-> FALSE, v |-> x]

\* x >= lo && x <= hi for a double x: false when x is NaN
RealWithin(x, lo, hi) == ~x.nan /\ WideLeq(lo, x.v) /\ WideLeq(x.v, hi)

\* std::nextafter(static_cast<double>(minInt64), 0.0): -2^63 + 1024
minInt64Next == <<-2, 0, 1024>>
\* std::nextafter(static_cast<double>(maxInt64), 0.0): 2^63 - 1024
maxInt64Next == <<1, WideDigit, WideDigit - 1023>>
\* std::nextafter(static_cast<double>(maxUInt64), 0.0): 2^64 - 2048
maxUInt64Next == <<3, WideDigit, WideDigit - 2047>>

----------------------------------------------------------------------------
(* The typed accessors.  In the accessors' nodes int_ / uint_ and the      *)
(* value of real_ are wide numbers.  An accessor gives [signal, ret, ub]:  *)
(* the message class of the std::runtime_error thrown ("none" when it      *)
(* returns), <<the value returned>>, whether the behaviour is undefined.   *)

Ret(x) == [signal |-> "none", ret |-> <<x>>, ub |-> FALSE]
Undefined == [signal |-> "none", ret |-> <<>>, ub |-> TRUE]

\* a JSONCPP_FAIL_MESSAGE that does nothing in either build
FailMessage_silent(h, class, defaultValue) == Ret(defaultValue)

\* JSONCPP_FAIL_MESSAGE(message); break; ... return defaultValue;
FailMessage(h, class, defaultValue) ==
    IF h.checked THEN [signal |-> class, ret |-> <<>>, ub |-> FALSE]
    ELSE Ret(defaultValue)

\* a JSONCPP_ASSERT_MESSAGE that does nothing in either build
AssertMessage_off(h, condition, class, result) == result

\* JSONCPP_ASSERT_MESSAGE(condition, message); return value;
AssertMessage(h, condition, class, result) ==
    IF h.checked /\ ~condition THEN [signal |-> class, ret |-> <<>>, ub |-> FALSE]
    ELSE result

\* Int(real) / UInt(real): undefined unless the value fits the target
RealToInteger(r, lo, hi) == IF RealWithin(r, lo, hi) THEN Ret(r.v) ELSE Undefined

\* Int Value::asInt(Int defaultValue) const
Value_asInt(h, v, defaultValue) ==
    CASE v.type_ = nullValue -> Ret(defaultValue)
      [] v.type_ = intValue ->
            AssertMessage(h, WideLeq(minInt, v.value_.int_) /\ WideLeq(v.value_.int_, maxInt),
                          "RangeOverflow", Ret(ToInt(v.value_.int_)))
      [] v.type_ = uintValue ->
            AssertMessage(h, WideLeq(v.value_.int_, ToUInt(maxInt)),
                          "RangeOverflow", Ret(ToInt(v.value_.int_)))
      [] v.type_ = realValue ->
            AssertMessage(h, RealWithin(v.value_.real_, minInt, maxInt),
                          "RangeOverflow", RealToInteger(v.value_.real_, minInt, maxInt))
      [] v.type_ = booleanValue -> Ret(IF v.value_.bool_ THEN Wide(1) ELSE Wide(0))
      [] OTHER -> FailMessage(h, "TypeMismatch", defaultValue)

\* UInt Value::asUInt(UInt defaultValue) const
Value_asUInt(h, v, defaultValue) ==
    CASE v.type_ = nullValue -> Ret(defaultValue)
      [] v.type_ = intValue ->
            AssertMessage(h, WideLeq(Wide(0), v.value_.int_) /\ WideLeq(v.value_.int_, maxUInt),
                          "RangeOverflow", Ret(ToUInt(v.value_.int_)))
      [] v.type_ = uintValue ->
            AssertMessage(h, WideLeq(v.value_.int_, maxUInt),
                          "RangeOverflow", Ret(ToUInt(v.value_.int_)))
      [] v.type_ = realValue ->
            AssertMessage(h, RealWithin(v.value_.real_, Wide(0), maxUInt),
                          "RangeOverflow", RealToInteger(v.value_.real_, Wide(0), maxUInt))
      [] v.type_ = booleanValue -> Ret(IF v.value_.bool_ THEN Wide(1) ELSE Wide(0))
      [] OTHER -> FailMessage(h, "TypeMismatch", defaultValue)

\* Int64 Value::asInt64(Int64 defaultValue) const
Value_asInt64(h, v, defaultValue) ==
    CASE v.type_ = nullValue -> Ret(defaultValue)
      [] v.type_ = intValue -> Ret(v.value_.int_)
      [] v.type_ = uintValue ->
            AssertMessage(h, WideLeq(v.value_.int_, ToUInt64(maxInt64)),
                          "RangeOverflow", Ret(ToInt64(v.value_.int_)))
      [] v.type_ = realValue ->
            AssertMessage(h, RealWithin(v.value_.real_, minInt64Next, maxInt64Next),
                          "RangeOverflow", RealToInteger(v.value_.real_, minInt, maxInt))
      [] v.type_ = booleanValue -> Ret(IF v.value_.bool_ THEN Wide(1) ELSE Wide(0))
      [] OTHER -> FailMessage(h, "TypeMismatch", defaultValue)

\* UInt64 Value::asUInt64(UInt64 defaultValue) const
Value_asUInt64(h, v, defaultValue) ==
    CASE v.type_ = nullValue -> Ret(defaultValue)
      [] v.type_ = intValue ->
            AssertMessage(h, WideLeq(Wide(0), v.value_.int_),
                          "RangeOverflow", Ret(ToUInt64(v.value_.int_)))
      [] v.type_ = uintValue -> Ret(v.value_.int_)
      [] v.type_ = realValue ->
            AssertMessage(h, RealWithin(v.value_.real_, Wide(0), maxUInt64Next),
                          "RangeOverflow", RealToInteger(v.value_.real_, Wide(0), maxUInt))
      [] v.type_ = booleanValue -> Ret(IF v.value_.bool_ THEN Wide(1) ELSE Wide(0))
      [] OTHER -> FailMessage(h, "TypeMismatch", defaultValue)

\* static_cast<float>(double)
DoubleToFloat(r) == IF r.nan THEN r ELSE WideDouble(RoundTo(r.v, 24))

\* double Value::asDouble(double defaultValue) const, without
\* JSONCPP_USE_INT64_DOUBLE_CONVERSION
Value_asDouble(h, v, defaultValue) ==
    CASE v.type_ = nullValue -> Ret(defaultValue)
      [] v.type_ \in {intValue, uintValue} -> Ret(WideDouble(RoundTo(v.value_.int_, 53)))
      [] v.type_ = realValue -> Ret(v.value_.real_)
      [] v.type_ = booleanValue -> Ret(WideDouble(IF v.value_.bool_ THEN Wide(1) ELSE Wide(0)))
      [] OTHER -> FailMessage(h, "TypeMismatch", defaultValue)

\* float Value::asFloat(float defaultValue) const
Value_asFloat(h, v, defaultValue) ==
    CASE v.type_ = nullValue -> Ret(defaultValue)
      [] v.type_ \in {intValue, uintValue} -> Ret(WideDouble(RoundTo(v.value_.int_, 24)))
      [] v.type_ = realValue -> Ret(DoubleToFloat(v.value_.real_))
      [] v.type_ = booleanValue -> Ret(WideDouble(IF v.value_.bool_ THEN Wide(1) ELSE Wide(0)))
      [] OTHER -> FailMessage(h, "TypeMismatch", defaultValue)

\* bool Value::asBool(bool defaultValue) const
Value_asBool(h, v, defaultValue) ==
    CASE v.type_ = nullValue -> Ret(defaultValue)
      [] v.type_ \in {intValue, uintValue} -> Ret(v.value_.int_ # Wide(0))
      [] v.type_ = realValue -> Ret(v.value_.real_.nan \/ v.value_.real_.v # Wide(0))
      [] v.type_ = booleanValue -> Ret(v.value_.bool_)
      [] v.type_ = stringValue ->
            Ret(v.value_.string_ # 0 /\ TextAt(h, v.value_.string_) # <<>>)
      [] OTHER -> Ret(Ents(h, v) # <<>>)

\* "true", "false"
TextTrue == <<116, 114, 117, 101>>
TextFalse == <<102, 97, 108, 115, 101>>

\* std::string Value::asString(const std::string& defaultValue) const
Value_asString(h, v, defaultValue) ==
    CASE v.type_ = nullValue -> Ret(defaultValue)
      [] v.type_ = stringValue ->
            Ret(IF v.value_.string_ # 0 THEN TextAt(h, v.value_.string_) ELSE <<>>)
      [] v.type_ = booleanValue -> Ret(IF v.value_.bool_ THEN TextTrue ELSE TextFalse)
      [] OTHER -> FailMessage(h, "TypeMismatch", defaultValue)

\* an isConvertibleTo that looks at the tags only
Value_isConvertibleTo_tagsOnly(h, v, other) ==
    \/ v.type_ = nullValue
    \/ v.type_ = other
    \/ /\ v.type_ \in {intValue, uintValue, realValue, booleanValue}
       /\ other \in {intValue, uintValue, realValue, stringValue, booleanValue}

\* bool Value::isConvertibleTo(ValueType other) const
Value_isConvertibleTo(h, v, other) ==
    CASE v.type_ = nullValue -> TRUE
      [] v.type_ = intValue ->
            \/ other = nullValue /\ v.value_.int_ = Wide(0)
            \/ other = intValue
            \/ other = uintValue /\ WideLeq(Wide(0), v.value_.int_)
            \/ other = realValue \/ other = stringValue \/ other = booleanValue
      [] v.type_ = uintValue ->
            \/ other = nullValue /\ v.value_.int_ = Wide(0)
            \/ other = intValue /\ WideLeq(v.value_.int_, ToUInt(maxInt))
            \/ other = uintValue
            \/ other = realValue \/ other = stringValue \/ other = booleanValue
      [] v.type_ = realValue ->
            \/ other = nullValue /\ ~v.value_.real_.nan /\ v.value_.real_.v = Wide(0)
            \/ other = intValue /\ RealWithin(v.value_.real_, minInt, maxInt)
            \/ other = uintValue /\ RealWithin(v.value_.real_, Wide(0), maxUInt)
            \/ other = realValue \/ other = stringValue \/ other = booleanValue
      [] v.type_ = booleanValue ->
            \/ other = nullValue /\ v.value_.bool_ = FALSE
            \/ other = intValue \/ other = uintValue \/ other = realValue
            \/ other = stringValue \/ other = booleanValue
      [] v.type_ = stringValue ->
            \/ other = stringValue
            \/ other = nullValue /\ (v.value_.string_ = 0 \/ TextAt(h, v.value_.string_) = <<>>)
      [] v.type_ = arrayValue ->
            other = arrayValue \/ (other = nullValue /\ Ents(h, v) = <<>>)
      [] OTHER ->
            other = objectValue \/ (other = nullValue /\ Ents(h, v) = <<>>)

----------------------------------------------------------------------------
(* Conversions *)

\* the integers, Reals and texts the calling program converts
ConvInts == {minInt64, WidePred(minInt), minInt, Wide(-1), Wide(0), Wide(1), maxInt,
             WideSucc(maxInt), maxUInt, WideSucc(maxUInt), maxInt64}
ConvUInts == {Wide(0), Wide(1), maxInt, WideSucc(maxInt), maxUInt, WideSucc(maxUInt),
              maxInt64, WideSucc(maxInt64), maxUInt64}
ConvReals == {minInt64, WidePred(minInt), minInt, Wide(-1), Wide(0), Wide(1), maxInt,
              WideSucc(maxInt), maxUInt, WideSucc(maxUInt), maxInt64Next,
              WideSucc(maxInt64), maxUInt64Next, WideSucc(maxUInt64)}

ConvNumberCtors ==
    {Ctor("int", n, <<>>) : n \in ConvInts}
    \cup {Ctor("uint", n, <<>>) : n \in ConvUInts}
    \cup {Ctor("real", n, <<>>) : n \in ConvReals}
    \cup {Ctor("nan", Wide(0), <<>>)}

ConvOtherCtors ==
    {Ctor("null", 0, <<>>)}
    \cup {Ctor("bool", n, <<>>) : n \in {0, 1}}
    \cup {Ctor("type", n, <<>>) : n \in {stringValue, arrayValue, objectValue}}
    \cup {Ctor(kind, 0, t) : kind \in {"static", "cstr", "sv"},
                             t \in {StaticTable[1], StaticTable[2]}}

ConvNewNumber == New("a", ConvNumberCtors)
ConvNewOther == New("a", ConvOtherCtors)

\* a.append(Value(1));  on an Array
ConvAppend ==
    /\ Running /\ a.type_ = arrayValue
    /\ \E r \in {Value_append(Heap(mem), a, Value_int(Wide(1)))} :
              /\ Commit(r.h)
              /\ a' = r.self
              /\ last' = Op("append")
    /\ UNCHANGED <<b, k1, k2, path, it1, it2>>

\* a[StaticString("a")] = Value(1);  on an Object
ConvMember ==
    /\ Running /\ a.type_ = objectValue
    /\ \E r \in {Value_at_static(Heap(mem), a, StaticPtr(StaticTable[2]))} :
       \E x \in {Value_assign_temp(r.h, Load(r.h, r.loc), Value_int(Wide(1)))} :
       \E h2 \in {Store(x.h, r.loc, x.self)} :
              /\ Commit(h2)
              /\ a' = r.self
              /\ last' = Op("member")
    /\ UNCHANGED <<b, k1, k2, path, it1, it2>>

\* the build: with JSONCPP_ENABLE_ASSERTS (the checked policy) or without
Build(checked) == HeapFailing(mem, -1, checked)

\* the record of an accessor call on `a`: its result r in a build
Converted(name, checked, r) ==
    /\ last' = [NoOp EXCEPT !.op = name, !.n = last.n + 1, !.checked = checked,
                            !.signal = r.signal, !.ret = r.ret, !.ub = r.ub]
    /\ fault' = r.ub
    /\ UNCHANGED <<mem, a, b, k1, k2, path, it1, it2>>

DefaultInts == {Wide(0), Wide(2)}
DefaultTexts == {StaticTable[1], StaticTable[3]}

\* a.asInt(d);
AsInt ==
    /\ Running
    /\ \E checked \in BOOLEAN, d \in DefaultInts :
          Converted("asInt", checked, Value_asInt(Build(checked), a, d))

\* a.asUInt(d);
AsUInt ==
    /\ Running
    /\ \E checked \in BOOLEAN, d \in DefaultInts :
          Converted("asUInt", checked, Value_asUInt(Build(checked), a, d))

\* a.asInt64(d);
AsInt64 ==
    /\ Running
    /\ \E checked \in BOOLEAN, d \in DefaultInts :
          Converted("asInt64", checked, Value_asInt64(Build(checked), a, d))

\* a.asUInt64(d);
AsUInt64 ==
    /\ Running
    /\ \E checked \in BOOLEAN, d \in DefaultInts :
          Converted("asUInt64", checked, Value_asUInt64(Build(checked), a, d))

\* a.asDouble(d);
AsDouble ==
    /\ Running
    /\ \E checked \in BOOLEAN, d \in DefaultInts :
          Converted("asDouble", checked, Value_asDouble(Build(checked), a, WideDouble(d)))

\* a.asFloat(d);
AsFloat ==
    /\ Running
    /\ \E checked \in BOOLEAN, d \in DefaultInts :
          Converted("asFloat", checked, Value_asFloat(Build(checked), a, WideDouble(d)))

\* a.asBool(d);
AsBool ==
    /\ Running
    /\ \E checked \in BOOLEAN, d \in BOOLEAN :
          Converted("asBool", checked, Value_asBool(Build(checked), a, d))

\* a.asString(d);
AsString ==
    /\ Running
    /\ \E checked \in BOOLEAN, d \in DefaultTexts :
          Converted("asString", checked, Value_asString(Build(checked), a, d))

\* a.isConvertibleTo(other);
IsConvertibleTo ==
    /\ Running
    /\ \E other \in nullValue..objectValue :
          last' = [NoOp EXCEPT !.op = "isConvertibleTo", !.n = last.n + 1,
                               !.other = other,
                               !.found = Value_isConvertibleTo(Heap(mem), a, other)]
    /\ UNCHANGED <<mem, fault, a, b, k1, k2, path, it1, it2>>

NextConv ==
    \/ ConvNewNumber \/ ConvNewOther \/ ConvAppend \/ ConvMember
    \/ AsInt \/ AsUInt \/ AsInt64 \/ AsUInt64 \/ AsDouble \/ AsFloat \/ AsBool \/ AsString
    \/ IsConvertibleTo

SpecConv == Init /\ [][NextConv]_vars

\* the least and the greatest number of the type an integer accessor returns
TargetMin(op) ==
    CASE op = "asInt" -> minInt [] op = "asInt64" -> minInt64 [] OTHER -> Wide(0)
TargetMax(op) ==
    CASE op = "asInt" -> maxInt [] op = "asUInt" -> maxUInt
      [] op = "asInt64" -> maxInt64 [] OTHER -> maxUInt64

\* C14: in the checked policy asInt, asUInt, asInt64 and asUInt64 applied
\* to an Int or UInt node signal RangeOverflow exactly when the stored
\* integer lies outside the range of the target type, and otherwise return
\* the stored integer unchanged
C14_IntegerBoundaries ==
    (/\ last.op \in {"asInt", "asUInt", "asInt64", "asUInt64"}
     /\ last.checked
     /\ a.type_ \in {intValue, uintValue}) =>
        LET fits == /\ WideLeq(TargetMin(last.op), a.value_.int_)
                    /\ WideLeq(a.value_.int_, TargetMax(last.op))
        IN  /\ ~last.ub
            /\ (last.signal = "RangeOverflow") <=> ~fits
            /\ fits => last.signal = "none" /\ last.ret = <<a.value_.int_>>
            /\ ~fits => last.ret = <<>>

\* asInt has signalled RangeOverflow for the UInt maxInt + 1
C14_Witness ==
    /\ last.op = "asInt" /\ last.checked
    /\ a.type_ = uintValue
    /\ a.value_.int_ = WideSucc(maxInt)
    /\ last.signal = "RangeOverflow"

\* the typed conversion accessors
Accessors == {"asInt", "asUInt", "asInt64", "asUInt64", "asDouble", "asFloat",
              "asBool", "asString"}

\* the text of the String node a ("" for a null pointer), and whether the
\* String, Array or Object a is non-empty
TextOfA == IF a.value_.string_ # 0 THEN TextAt(Heap(mem), a.value_.string_) ELSE <<>>
NonEmptyA == IF a.type_ = stringValue THEN TextOfA # <<>> ELSE Ents(Heap(mem), a) # <<>>

\* C15 as stated: in the checked policy every typed accessor applied to a
\* String, Array or Object node signals TypeMismatch
C15_NeverConvertible ==
    (/\ last.op \in Accessors
     /\ last.checked
     /\ a.type_ \in {stringValue, arrayValue, objectValue}) =>
        last.signal = "TypeMismatch"

\* C15 amended: in the checked policy asInt, asUInt, asInt64, asUInt64,
\* asDouble and asFloat applied to a String, Array or Object node, and
\* asString applied to an Array or Object node, signal TypeMismatch;
\* asString applied to a String node returns its text, and asBool applied to
\* a String, Array or Object node returns whether it is non-empty; neither
\* signals
C15_ConvertibleOnlyToStringAndBool ==
    (/\ last.op \in Accessors
     /\ last.checked
     /\ a.type_ \in {stringValue, arrayValue, objectValue}) =>
        /\ ~last.ub
        /\ last.op \notin {"asBool", "asString"} =>
              last.signal = "TypeMismatch" /\ last.ret = <<>>
        /\ (last.op = "asString" /\ a.type_ # stringValue) =>
              last.signal = "TypeMismatch" /\ last.ret = <<>>
        /\ (last.op = "asString" /\ a.type_ = stringValue) =>
              last.signal = "none" /\ last.ret = <<TextOfA>>
        /\ last.op = "asBool" =>
              last.signal = "none" /\ last.ret = <<NonEmptyA>>

\* asDouble has signalled TypeMismatch for an Array with an element
C15_Witness ==
    /\ last.op = "asDouble" /\ last.checked
    /\ a.type_ = arrayValue /\ Ents(Heap(mem), a) # <<>>
    /\ last.signal = "TypeMismatch"

\* whether the numeric node a holds zero
ZeroA == IF a.type_ = realValue
         THEN ~a.value_.real_.nan /\ a.value_.real_.v = Wide(0)
         ELSE a.value_.int_ = Wide(0)

\* C16 as stated: isConvertibleTo on a numeric node returns true for every
\* other numeric tag, for String and for Bool, whatever the stored value,
\* and for Null only when the stored value is zero
C16_NumericConvertible ==
    (last.op = "isConvertibleTo" /\ a.type_ \in {intValue, uintValue, realValue}) =>
        /\ last.other \in {intValue, uintValue, realValue, stringValue, booleanValue}
              => last.found
        /\ last.other = nullValue => (last.found <=> ZeroA)

\* the value of the numeric node a, NaN excepted, lies in lo..hi
WithinA(lo, hi) ==
    IF a.type_ = realValue THEN RealWithin(a.value_.real_, lo, hi)
    ELSE WideLeq(lo, a.value_.int_) /\ WideLeq(a.value_.int_, hi)

\* C16 amended: isConvertibleTo on a numeric node returns true for its own
\* tag, for Real, for String and for Bool, whatever the stored value; for
\* Int exactly when the node is an Int or its value lies in minInt..maxInt;
\* for UInt exactly when the node is a UInt or its value lies in
\* 0..maxUInt, for an Int node in 0..maxInt64 (a NaN lies in no range); for
\* Null only when the stored value is zero; for Array and Object never
C16_NumericConvertibleInRange ==
    (last.op = "isConvertibleTo" /\ a.type_ \in {intValue, uintValue, realValue}) =>
        /\ last.other \in {a.type_, realValue, stringValue, booleanValue} => last.found
        /\ (last.other = intValue /\ a.type_ # intValue) =>
              (last.found <=> WithinA(minInt, maxInt))
        /\ (last.other = uintValue /\ a.type_ = intValue) =>
              (last.found <=> WithinA(Wide(0), maxInt64))
        /\ (last.other = uintValue /\ a.type_ = realValue) =>
              (last.found <=> WithinA(Wide(0), maxUInt))
        /\ last.other = nullValue => (last.found <=> ZeroA)
        /\ last.other \in {arrayValue, objectValue} => ~last.found

\* isConvertibleTo(UInt) has returned false for the Int -1
C16_Witness ==
    /\ last.op = "isConvertibleTo"
    /\ a.type_ = intValue /\ a.value_.int_ = Wide(-1)
    /\ last.other = uintValue
    /\ ~last.found

----------------------------------------------------------------------------
(* class PathArgument and class Path.  A std::string is the sequence of    *)
(* its bytes; a position in the path string is a number 1..Len+1, Len+1    *)
(* being `end`.  A Path under construction is [args_, itInArg, holes]:     *)
(* args_ and the iterator into the supplied arguments are the code's,      *)
(* holes is history: one entry for each placeholder met, the kind it       *)
(* asked for and the number of the step it pushed (0 when it pushed none). *)

(* enum PathArgument::Kind *)
kindNone == 0
kindIndex == 1
kindKey == 2

\* '.', '[', ']', '%', '0', '9'
Dot == 46
LBracket == 91
RBracket == 93
Percent == 37
Digit0 == 48
Digit9 == 57

\* PathArgument()
PathArgument_none == [key_ |-> <<>>, index_ |-> 0, kind_ |-> kindNone]
\* PathArgument(ArrayIndex index)
PathArgument_index(index) == [key_ |-> <<>>, index_ |-> index, kind_ |-> kindIndex]
\* PathArgument(Key&& key)
PathArgument_key(key) == [key_ |-> key, index_ |-> 0, kind_ |-> kindKey]

\* *current, the terminating NUL when current is end
CharAt(s, current) == IF current <= Len(s) THEN s[current] ELSE 0

\* args_.push_back(arg) / args_.emplace_back(arg)
PushArg(p, arg) == [p EXCEPT !.args_ = Append(@, arg)]

\* void Path::invalidPath(path, location): records nothing
invalidPath(p, location) == p

\* void Path::addPathInArg(path, in, itInArg, kind): itInArg is taken by
\* reference and is not advanced
addPathInArg(p, in, kind) ==
    IF p.itInArg = Len(in) + 1
    THEN [p EXCEPT !.holes = Append(@, [kind |-> kind, step |-> 0])]
    ELSE IF in[p.itInArg].kind_ # kind
    THEN [p EXCEPT !.holes = Append(@, [kind |-> kind, step |-> 0])]
    ELSE [PushArg(p, in[p.itInArg]) EXCEPT
             !.holes = Append(@, [kind |-> kind, step |-> Len(p.args_) + 1])]

\* for (; current != end && *current >= '0' && *current <= '9'; ++current)
\*     index = index * 10 + ArrayIndex(*current - '0');
\* (a path of at most MaxPath + 1 bytes cannot overflow ArrayIndex)
RECURSIVE ScanIndex(_, _, _)
ScanIndex(s, current, index) ==
    IF current # Len(s) + 1 /\ s[current] >= Digit0 /\ s[current] <= Digit9
    THEN ScanIndex(s, current + 1, index * 10 + (s[current] - Digit0))
    ELSE [index |-> index, current |-> current]

\* while (current != end && !strchr("[.", *current)) ++current;
RECURSIVE ScanName(_, _)
ScanName(s, current) ==
    IF current # Len(s) + 1 /\ s[current] \notin {LBracket, Dot, 0}
    THEN ScanName(s, current + 1)
    ELSE current

\* the loop of Path::makePath, from position current on
RECURSIVE makePathFrom(_, _, _, _)
makePathFrom(s, in, current, p) ==
    IF current = Len(s) + 1 THEN p
    ELSE IF s[current] = LBracket
    THEN LET c1 == current + 1
             q  == IF CharAt(s, c1) = Percent
                   THEN [p |-> addPathInArg(p, in, kindIndex), current |-> c1]
                   ELSE LET d == ScanIndex(s, c1, 0)
                        IN  [p |-> PushArg(p, PathArgument_index(d.index)),
                             current |-> d.current]
         IN  \* if (current == end || *current++ != ']') invalidPath(...)
             IF q.current = Len(s) + 1
             THEN makePathFrom(s, in, q.current, invalidPath(q.p, q.current - 1))
             ELSE IF s[q.current] # RBracket
             THEN makePathFrom(s, in, q.current + 1, invalidPath(q.p, q.current))
             ELSE makePathFrom(s, in, q.current + 1, q.p)
    ELSE IF s[current] = Percent
    THEN makePathFrom(s, in, current + 1, addPathInArg(p, in, kindKey))
    ELSE IF s[current] = Dot
    THEN makePathFrom(s, in, current + 1, p)
    ELSE LET e == ScanName(s, current)
         IN  makePathFrom(s, in, e, PushArg(p, PathArgument_key(SubSeq(s, current, e - 1))))

\* void Path::makePath(const std::string& path, const InArgs& in)
makePath(s, in) == makePathFrom(s, in, 1, [args_ |-> <<>>, itInArg |-> 1, holes |-> <<>>])

\* Path::Path(path, a1, a2, a3, a4, a5)
Path_ctor(s, a1, a2, a3, a4, a5) == makePath(s, <<a1, a2, a3, a4, a5>>)

----------------------------------------------------------------------------
(* Compiling paths: a program that constructs a Path from a string and     *)
(* up to two explicit arguments.                                           *)

\* the bytes of the path strings: . [ ] % a 2
PathChars == {Dot, LBracket, RBracket, Percent, 97, 50}

RECURSIVE StringsUpTo(_)
StringsUpTo(n) ==
    IF n = 0 THEN {<<>>}
    ELSE LET S == StringsUpTo(n - 1)
         IN  S \cup {Append(s, c) : s \in S, c \in PathChars}

PathStrings == StringsUpTo(MaxPath)

PathArguments ==
    {PathArgument_none} \cup {PathArgument_index(i) : i \in 1..2}
                        \cup {PathArgument_key(t) : t \in {<<97>>, <<98>>}}

\* Path path(s, a1, a2);
Compile ==
    /\ Running /\ last.op = "none"
    /\ \E s \in PathStrings, a1 \in PathArguments, a2 \in PathArguments :
       \* (an argument is supplied after another one)
       /\ a1 = PathArgument_none => a2 = PathArgument_none
       /\ \E p \in {Path_ctor(s, a1, a2, PathArgument_none, PathArgument_none,
                           PathArgument_none)} :
          /\ path' = p.args_
          /\ last' = [NoOp EXCEPT !.op = "compile", !.n = last.n + 1, !.str = s,
                                  !.in = <<a1, a2, PathArgument_none, PathArgument_none,
                                           PathArgument_none>>,
                                  !.holes = p.holes]
    /\ UNCHANGED <<mem, fault, a, b, k1, k2, it1, it2>>

NextParse == Compile

SpecParse == Init /\ [][NextParse]_vars

\* C17: the k-th placeholder of a path string is bound to the k-th supplied
\* argument: whenever that argument has the kind the placeholder asks for,
\* the step the placeholder contributes is that argument
C17_PlaceholdersInOrder ==
    last.op = "compile" =>
        \A k \in 1..Len(last.holes) :
            (k <= Len(last.in) /\ last.in[k].kind_ = last.holes[k].kind)
                => /\ last.holes[k].step \in 1..Len(path)
                   /\ path[last.holes[k].step] = last.in[k]

\* a stretch of a path string with literal names and dots only
Plain(s) == \A i \in 1..Len(s) : s[i] \notin {LBracket, RBracket, Percent}
\* ... after which, and before which, a new step begins
EndsStep(s) == s = <<>> \/ s[Len(s)] = Dot
BeginsStep(s) == s = <<>> \/ s[1] = Dot
\* the steps of such a stretch
PlainSteps(s) == makePath(s, <<>>).args_

\* C19: an unterminated `[`, and a placeholder whose argument is missing
\* or of the other kind, contribute no step, and the literal steps around
\* them are kept in order
C19_MalformedDropped ==
    last.op = "compile" =>
        \A n \in 1..Len(last.str) :
            LET pre  == SubSeq(last.str, 1, n - 1)
                rest == SubSeq(last.str, n + 1, Len(last.str))
                post == SubSeq(last.str, n + 3, Len(last.str))
            IN  /\ (/\ last.str[n] = LBracket /\ Plain(pre)
                    /\ \A i \in 1..Len(rest) : rest[i] >= Digit0 /\ rest[i] <= Digit9)
                       => path = PlainSteps(pre)
                /\ (/\ last.str[n] = LBracket /\ Plain(pre)
                    /\ Len(rest) >= 2 /\ rest[1] = Percent /\ rest[2] = RBracket
                    /\ Plain(post) /\ BeginsStep(post)
                    /\ last.in[1].kind_ # kindIndex)
                       => path = PlainSteps(pre) \o PlainSteps(post)
                /\ (/\ last.str[n] = Percent /\ Plain(pre) /\ EndsStep(pre)
                    /\ Plain(rest) /\ BeginsStep(rest)
                    /\ last.in[1].kind_ # kindKey)
                       => path = PlainSteps(pre) \o PlainSteps(rest)

----------------------------------------------------------------------------
(* Walking a tree.  A pointer `node` of a walk is RootRef (&root), the     *)
(* location of a Value in a store, or NoLoc, which here stands for         *)
(* &Value::null.  A walk is [h, root, node, ub, assertion, pickok]: the    *)
(* heap, the root Value, the node it is at, whether it has run into        *)
(* undefined behaviour, whether every JSONCPP_ASSERT on the way held.      *)

RootRef == [map |-> -1, pos |-> 0]

\* *node
Deref(h, root, node) == IF node = RootRef THEN root ELSE Load(h, node)

\* *node = v
WriteBack(w, v) ==
    IF w.node = RootRef THEN [w EXCEPT !.root = v]
    ELSE [w EXCEPT !.h = Store(w.h, w.node, v)]

Start(h, root) ==
    [h |-> h, root |-> root, node |-> RootRef, ub |-> FALSE, assertion |-> TRUE,
     pickok |-> TRUE]

\* reading value_.map_ of a Value that holds another member of the union
HasNoMap(v) == v.type_ \notin {nullValue, arrayValue, objectValue}

\* node->tryGet(arg.index_), node->tryGet(arg.key_): in a build with
\* JSONCPP_ENABLE_ASSERTS the JSONCPP_ASSERT of tryGet aborts the program,
\* in a build without it the find runs on whatever value_.map_ holds
TryGet(w, arg) ==
    LET v    == Deref(w.h, w.root, w.node)
        want == IF arg.kind_ = kindIndex THEN arrayValue ELSE objectValue
    IN  IF v.type_ \notin {nullValue, want} /\ w.h.checked
        THEN [w EXCEPT !.assertion = FALSE]
        ELSE IF HasNoMap(v)
        THEN [w EXCEPT !.ub = TRUE, !.h = Fault(w.h)]
        ELSE IF arg.kind_ = kindIndex
        THEN [w EXCEPT !.node = Value_tryGet_index(w.h, v, arg.index_)]
        ELSE LET r == Value_tryGet_sv(w.h, v, StringView(arg.key_))
             IN  IF r.ub THEN [w EXCEPT !.ub = TRUE, !.h = Fault(w.h)]
                 ELSE [w EXCEPT !.node = r.loc]

\* const Value& Path::resolve(const Value& root) const, from the step
\* Head(args) on
RECURSIVE Path_resolveFrom(_, _)
Path_resolveFrom(args, w) ==
    IF args = <<>> \/ w.ub \/ ~w.assertion THEN w
    ELSE IF Head(args).kind_ \in {kindIndex, kindKey}
    THEN Path_resolveFrom(Tail(args), TryGet(w, Head(args)))
    ELSE Path_resolveFrom(Tail(args), w)

Path_resolve(h, root, args) == Path_resolveFrom(args, Start(h, root))

\* The loop of Value Path::resolve(const Value& root, const Value&
\* defaultValue) const, from the step Head(args) on: [w, isdefault],
\* isdefault when it returns defaultValue, otherwise it returns *w.node
RECURSIVE Path_resolveDefaultFrom(_, _)
Path_resolveDefaultFrom(args, w) ==
    IF args = <<>> \/ w.ub \/ ~w.assertion THEN [w |-> w, isdefault |-> FALSE]
    ELSE LET arg  == Head(args)
             node == Deref(w.h, w.root, w.node)
         IN  IF arg.kind_ = kindIndex
             THEN IF ~Value_isArray(node) \/ Value_isValidIndex(w.h, node, arg.index_)
                  THEN [w |-> w, isdefault |-> TRUE]
                  ELSE Path_resolveDefaultFrom(Tail(args), TryGet(w, arg))
             ELSE IF arg.kind_ = kindKey
             THEN IF ~Value_isObject(node)
                  THEN [w |-> w, isdefault |-> TRUE]
                  ELSE LET t == TryGet(w, arg)
                       IN  IF ~t.ub /\ t.assertion /\ t.node = NoLoc
                           THEN [w |-> t, isdefault |-> TRUE]
                           ELSE Path_resolveDefaultFrom(Tail(args), t)
             ELSE Path_resolveDefaultFrom(Tail(args), w)

\* Value Path::resolve(const Value& root, const Value& defaultValue) const:
\* [w, isdefault, v], v being the Value returned, a copy made with
\* Value(const Value&) of defaultValue or of *w.node; w.h.thrown when the
\* copy has thrown
Path_resolve_default(h, root, args, defaultValue) ==
    With(Path_resolveDefaultFrom(args, Start(h, root)), LAMBDA r :
         IF r.w.ub \/ ~r.w.assertion
         THEN [w |-> r.w, isdefault |-> r.isdefault, v |-> null]
         ELSE With(Value_copy(r.w.h, IF r.isdefault THEN defaultValue
                                     ELSE Deref(r.w.h, r.w.root, r.w.node)),
                   LAMBDA c :
                   [w |-> [r.w EXCEPT !.h = c.h], isdefault |-> r.isdefault, v |-> c.v]))

\* node = &((*node)[arg.index_]), node = &((*node)[arg.key_]): operator[]
\* with its JSONCPP_ASSERT
At(w, arg, pick) ==
    LET v    == Deref(w.h, w.root, w.node)
        want == IF arg.kind_ = kindIndex THEN arrayValue ELSE objectValue
    IN  IF v.type_ \notin {nullValue, want} /\ w.h.checked
        THEN [w EXCEPT !.assertion = FALSE]
        ELSE IF HasNoMap(v)
        THEN [w EXCEPT !.ub = TRUE, !.h = Fault(w.h)]
        ELSE IF arg.kind_ = kindIndex
        THEN LET r == Value_at_index(w.h, v, arg.index_)
             IN  [WriteBack([w EXCEPT !.h = r.h], r.self) EXCEPT !.node = r.loc]
        ELSE LET r == Value_at_sv(w.h, v, StringView(arg.key_), pick)
             IN  [WriteBack([w EXCEPT !.h = r.h], r.self) EXCEPT
                     !.node = r.loc, !.ub = r.h.fault,
                     !.pickok = w.pickok /\ r.pickok]

\* Value& Path::make(Value& root) const, from the step Head(args) on.
\* Every step is an operator[] of its own: picks[i] names what the emplace
\* of step i returns, independently of the other steps.
RECURSIVE Path_makeFrom(_, _, _)
Path_makeFrom(args, w, picks) ==
    IF args = <<>> \/ w.ub \/ ~w.assertion THEN w
    ELSE IF Head(args).kind_ \in {kindIndex, kindKey}
    THEN Path_makeFrom(Tail(args), At(w, Head(args), Head(picks)), Tail(picks))
    ELSE Path_makeFrom(Tail(args), w, Tail(picks))

\* Value& Path::make(Value& root) const; picks holds one pick per step
Path_make(h, root, args, picks) == Path_makeFrom(args, Start(h, root), picks)

----------------------------------------------------------------------------
(* Paths on trees: a program that builds a tree in `a` by constructors     *)
(* and chained accesses, constructs a Path, and resolves or makes it.      *)

WalkCtors ==
    {Ctor("null", 0, <<>>), Ctor("int", 1, <<>>), Ctor("cstr", 0, StaticTable[2])}
    \cup {Ctor("type", n, <<>>) : n \in {arrayValue, objectValue}}

\* { Value a(args); }
WalkNew == New("a", WalkCtors)

\* the literal subscripts of the program: "a", "b", 1, 2
WalkSteps ==
    {PathArgument_key(t) : t \in {StaticTable[2], StaticTable[3]}}
    \cup {PathArgument_index(i) : i \in 1..2}

\* *w.node = n;
AssignAt(w, n) ==
    LET x == Value_assign_temp(w.h, Deref(w.h, w.root, w.node), Value_int(n))
    IN  WriteBack([w EXCEPT !.h = x.h], x.self)

\* the program keeps the preconditions of operator[]
Kept(w) == w.assertion /\ ~w.ub /\ w.pickok

\* a[s] = n;
WalkSet ==
    /\ Running
    /\ \E s \in WalkSteps, n \in ElemInts :
       \E w1 \in {At(Start(Build(TRUE), a), s, 0)} :
       /\ Kept(w1)
       /\ \E w \in {AssignAt(w1, n)} :
              /\ Commit(w.h)
              /\ a' = w.root
              /\ last' = Op("walk_set")
    /\ UNCHANGED <<b, k1, k2, path, it1, it2>>

\* a[s1][s2] = n;
WalkSetNested ==
    /\ Running
    /\ \E s1 \in WalkSteps, s2 \in WalkSteps, n \in ElemInts :
       \E w1 \in {At(Start(Build(TRUE), a), s1, 0)} :
       /\ Kept(w1)
       /\ \E w2 \in {At(w1, s2, 0)} :
          /\ Kept(w2)
          /\ \E w \in {AssignAt(w2, n)} :
              /\ Commit(w.h)
              /\ a' = w.root
              /\ last' = Op("walk_set")
    /\ UNCHANGED <<b, k1, k2, path, it1, it2>>

\* the Path objects of the program: the string and the first argument; the
\* last one binds the empty name, Path(".a.%", PathArgument(""))
WalkPaths ==
    { <<<<Dot, 97, LBracket, Percent, RBracket>>, PathArgument_index(2)>>,
      <<<<Dot, 97, LBracket, 50, RBracket>>, PathArgument_none>>,
      <<<<Dot, 97, LBracket, 49, RBracket>>, PathArgument_none>>,
      <<<<Dot, 97>>, PathArgument_none>>,
      <<<<Dot, 97, Dot, 98>>, PathArgument_none>>,
      <<<<LBracket, 49, RBracket>>, PathArgument_none>>,
      <<<<Dot, Percent>>, PathArgument_key(StaticTable[3])>>,
      <<<<Dot, 97, Dot, Percent>>, PathArgument_key(StaticTable[1])>> }

\* Path path(s, a1);
PathNew ==
    /\ Running /\ path = <<>> /\ last.str = <<>>
    /\ \E c \in WalkPaths :
       \E p \in {Path_ctor(c[1], c[2], PathArgument_none, PathArgument_none,
                           PathArgument_none, PathArgument_none)} :
          /\ path' = p.args_
          /\ last' = [Op("compile") EXCEPT
                         !.str = c[1],
                         !.in = <<c[2], PathArgument_none, PathArgument_none,
                                  PathArgument_none, PathArgument_none>>,
                         !.holes = p.holes]
    /\ UNCHANGED <<mem, fault, a, b, k1, k2, it1, it2>>

\* path.resolve(a);
Resolve ==
    /\ Running /\ path # <<>>
    /\ \E checked \in BOOLEAN :
       \E w \in {Path_resolve(Build(checked), a, path)} :
          /\ fault' = w.ub
          /\ last' = [Op("resolve") EXCEPT
                         !.checked = checked, !.assertion = w.assertion,
                         !.ub = w.ub, !.node = w.node,
                         !.sentinel = (w.node = NoLoc),
                         !.x = Snap(Heap(mem), Deref(Heap(mem), a, w.node))]
    /\ UNCHANGED <<mem, a, b, k1, k2, path, it1, it2>>

\* path.make(a);
Make ==
    /\ Running /\ path # <<>>
    /\ \E checked \in BOOLEAN, picks \in [1..Len(path) -> Picks] :
       \E w \in {Path_make(Build(checked), a, path, picks)} :
          /\ w.pickok
          /\ Commit(w.h)
          /\ a' = w.root
          /\ last' = [Op("make") EXCEPT
                         !.checked = checked, !.assertion = w.assertion,
                         !.ub = w.ub, !.node = w.node,
                         !.x = Snap(w.h, Deref(w.h, w.root, w.node))]
    /\ UNCHANGED <<b, k1, k2, path, it1, it2>>

\* the defaultValue of the program: an integer no tree holds
WalkDefault == Value_int(MaxElem + 1)

\* path.resolve(a, WalkDefault);  the Value returned is destroyed after it
\* is read
ResolveDefault ==
    /\ Running /\ path # <<>>
    /\ \E checked \in BOOLEAN :
       \E r \in {Path_resolve_default(Build(checked), a, path, WalkDefault)} :
       \E h \in {Value_dtor(r.w.h, r.v)} :
          /\ Commit(h)
          /\ last' = [Op("resolve_default") EXCEPT
                         !.checked = checked, !.assertion = r.w.assertion,
                         !.ub = r.w.ub, !.node = r.w.node,
                         !.found = ~r.isdefault,
                         !.x = Snap(r.w.h, r.v)]
    /\ UNCHANGED <<a, b, k1, k2, path, it1, it2>>

NextWalk ==
    \/ WalkNew \/ WalkSet \/ WalkSetNested \/ PathNew \/ Resolve \/ Make
    \/ ResolveDefault

SpecWalk == Init /\ [][NextWalk]_vars

\* <<the content of the node>> the literal steps lead to in a tree of
\* content snap: an Index step takes the element of an Array stored under
\* that index, a Name step the member of an Object of that name; <<>> when
\* some step finds no such element or member
RECURSIVE Located(_, _)
Located(snap, steps) ==
    IF steps = <<>> THEN <<snap>>
    ELSE LET arg  == Head(steps)
             hits == {i \in 1..Len(snap.m) :
                         IF arg.kind_ = kindIndex
                         THEN /\ snap.t = arrayValue /\ snap.m[i].name = <<>>
                              /\ snap.m[i].index = arg.index_
                         ELSE /\ snap.t = objectValue
                              /\ snap.m[i].name = <<arg.key_>>}
         IN  IF hits = {} THEN <<>>
             ELSE Located(snap.m[CHOOSE i \in hits : TRUE].val, Tail(steps))

\* ".a[%]" and the steps Name "a", Index 2
RoundTripString == <<Dot, 97, LBracket, Percent, RBracket>>
RoundTripSteps == <<PathArgument_key(<<97>>), PathArgument_index(2)>>

\* the chained mutating accesses root["a"][2] on a Null root: the tree
RoundTripTree ==
    LET r1 == Value_at_sv(Heap(EmptyMem), null, StringView(<<97>>), 0)
        r2 == Value_at_index(r1.h, Load(r1.h, r1.loc), 2)
    IN  Snap(Store(r2.h, r1.loc, r2.self), r1.self)

\* &a["a"][2] in the current state
RoundTripSlot ==
    LET r1 == Value_tryGet_sv(Heap(mem), a, StringView(<<97>>))
    IN  Value_tryGet_index(Heap(mem), Load(Heap(mem), r1.loc), 2)

\* C18: ".a[%]" compiled with the Index argument 2 is the two steps Name
\* "a", Index 2; resolve returns root["a"][2] when that element is present;
\* make on a Null root gives the tree of the accesses root["a"][2] and
\* returns that slot
C18_PathRoundTrip ==
    (last.str = RoundTripString /\ last.in[1] = PathArgument_index(2)) =>
        /\ path = RoundTripSteps
        /\ (last.op = "resolve" /\ Located(last.pre, RoundTripSteps) # <<>>)
              => /\ last.assertion /\ ~last.ub /\ ~last.sentinel
                 /\ <<last.x>> = Located(last.pre, RoundTripSteps)
        /\ (last.op = "make" /\ last.pre = NullSnap)
              => /\ last.assertion /\ ~last.ub
                 /\ Snap(Heap(mem), a) = RoundTripTree
                 /\ last.x = NullSnap
                 /\ last.node = RoundTripSlot

\* C20: resolve(root) leaves the tree as it was, and when some step of the
\* path does not fit the tree it returns the Null sentinel
C20_ResolveMisfitIsNull ==
    last.op = "resolve" =>
        /\ Snap(Heap(mem), a) = last.pre
        /\ Located(last.pre, path) = <<>>
              => last.assertion /\ ~last.ub /\ last.sentinel

\* C21: resolve(root, default) returns the default exactly when some step
\* of the path does not fit the tree, and otherwise a copy of the node the
\* steps lead to
C21_ResolveDefaultExact ==
    last.op = "resolve_default" =>
        /\ last.assertion /\ ~last.ub
        /\ Located(last.pre, path) = <<>>
              => ~last.found /\ last.x = Snap(Heap(mem), WalkDefault)
        /\ Located(last.pre, path) # <<>>
              => last.found /\ <<last.x>> = Located(last.pre, path)

\* the entry of a container's content that a step selects
Selects(arg, e) ==
    IF arg.kind_ = kindIndex THEN e.name = <<>> /\ e.index = arg.index_
    ELSE e.name = <<arg.key_>>

\* the entry comes before the place of the step's key in the store's order:
\* Index keys by number, Name keys by their bytes
ComesBefore(e, arg) ==
    IF arg.kind_ = kindIndex THEN e.index < arg.index_
    ELSE e.name # <<>> /\ BytesLess(e.name[1], arg.key_)

\* every node the literal steps pass in a tree of content snap is Null or
\* of the kind the step is for (Array for an Index, Object for a Name)
RECURSIVE Vivifiable(_, _)
Vivifiable(snap, steps) ==
    \/ steps = <<>>
    \/ /\ snap.t \in {nullValue,
                      IF Head(steps).kind_ = kindIndex THEN arrayValue ELSE objectValue}
       /\ \A i \in 1..Len(snap.m) :
             Selects(Head(steps), snap.m[i]) => Vivifiable(snap.m[i].val, Tail(steps))

\* the content of that tree after the chained mutating accesses
\* root[s1]...[sk] as the documentation describes them: a Null node on the
\* way becomes an Array or an Object, a missing element or member is
\* created as Null, nothing else changes
RECURSIVE Vivified(_, _)
Vivified(snap, steps) ==
    IF steps = <<>> THEN snap
    ELSE LET arg  == Head(steps)
             cont == IF snap.t = nullValue
                     THEN [snap EXCEPT !.t = IF arg.kind_ = kindIndex THEN arrayValue
                                             ELSE objectValue]
                     ELSE snap
             hits == {i \in 1..Len(cont.m) : Selects(arg, cont.m[i])}
             j    == Cardinality({i \in 1..Len(cont.m) : ComesBefore(cont.m[i], arg)})
             e    == [name  |-> IF arg.kind_ = kindKey THEN <<arg.key_>> ELSE <<>>,
                      index |-> IF arg.kind_ = kindIndex THEN arg.index_ ELSE 0,
                      val   |-> Vivified(NullSnap, Tail(steps))]
         IN  IF hits # {}
             THEN [cont EXCEPT !.m = [i \in 1..Len(cont.m) |->
                                         IF i \in hits
                                         THEN [cont.m[i] EXCEPT !.val = Vivified(@, Tail(steps))]
                                         ELSE cont.m[i]]]
             ELSE [cont EXCEPT !.m = [i \in 1..(Len(cont.m) + 1) |->
                                         IF i <= j THEN cont.m[i]
                                         ELSE IF i = j + 1 THEN e
                                         ELSE cont.m[i - 1]]]

\* the path of the program was written without placeholders
LiteralPath ==
    /\ last.in # <<>> /\ last.in[1] = PathArgument_none
    /\ \A i \in 1..Len(last.str) : last.str[i] # Percent

\* C22: make(root) for a path of literal steps leaves the tree and returns
\* the node of the chained mutating accesses root[s1]...[sk]: Null nodes on
\* the way are promoted, a missing final node is created as Null, no node
\* off the path is changed
C22_MakeIsChainedAccess ==
    (last.op = "make" /\ LiteralPath /\ Vivifiable(last.pre, path)) =>
        /\ last.assertion /\ ~last.ub
        /\ Snap(Heap(mem), a) = Vivified(last.pre, path)
        /\ <<last.x>> = Located(Vivified(last.pre, path), path)


----------------------------------------------------------------------------
(* Iterators held by the calling program.  current_ of a default           *)
(* constructed iterator is a value-initialized std::map iterator: it may   *)
(* be compared with another value-initialized iterator only, and neither   *)
(* incremented nor dereferenced.                                           *)

\* current is a value-initialized ObjectValues::iterator
Singular(current) == current.map = 0

\* current_ == other.current_ is within the domain of ==: both iterators
\* are value-initialized, or both iterate the same map
Comparable(current, other) ==
    IF Singular(current) \/ Singular(other)
    THEN Singular(current) /\ Singular(other)
    ELSE current.map = other.map

\* it.isEqual(other) compares within the domain of ==
Iterator_isEqualDefined(it, other) ==
    it.isNull_ \/ Comparable(it.current_, other.current_)

\* difference_type ValueIteratorBase::computeDistance(const SelfType& other)
\* const: [d |-> the count, ub |-> the loop leaves the domain of != or ++]
Iterator_computeDistance(it, other) ==
    IF it.isNull_ /\ other.isNull_ THEN [d |-> 0, ub |-> FALSE]
    ELSE IF ~Comparable(it.current_, other.current_) THEN [d |-> 0, ub |-> TRUE]
    ELSE IF it.current_ = other.current_ THEN [d |-> 0, ub |-> FALSE]
    ELSE IF it.current_.pos > other.current_.pos THEN [d |-> 0, ub |-> TRUE]
    ELSE [d |-> other.current_.pos - it.current_.pos, ub |-> FALSE]

\* void ValueIteratorBase::copy(const SelfType& other)
Iterator_copy(it, other) == [it EXCEPT !.current_ = other.current_]

\* ValueIterator& ValueIterator::operator=(const SelfType& other)
ValueIterator_assign(it, other) == Iterator_copy(it, other)

\* ValueConstIterator& ValueConstIterator::operator=(const ValueIteratorBase&)
ValueConstIterator_assign(it, other) == Iterator_copy(it, other)

\* ValueConstIterator& ValueConstIterator::operator=(const ValueConstIterator&):
\* the class declares no copy assignment, the implicit one assigns the base
\* class memberwise, current_ and isNull_
ValueConstIterator_assign_implicit(it, other) ==
    [it EXCEPT !.current_ = other.current_, !.isNull_ = other.isNull_]

\* it1 = it2; by the operator= that overload resolution selects:
\* "ValueIterator": both are Value::iterator; "ValueConstIterator": it1 is
\* a Value::const_iterator and it2 a Value::iterator;
\* "ValueConstIterator(implicit)": both are Value::const_iterator
AssignOverloads == {"ValueIterator", "ValueConstIterator", "ValueConstIterator(implicit)"}

\* where the program takes an iterator from
IterSources == {"begin", "end", "default"}

\* a.begin(), a.end() or Value::iterator()
IterFrom(src) ==
    CASE src = "begin" -> Value_begin(Heap(mem), a)
      [] src = "end" -> Value_end(Heap(mem), a)
      [] OTHER -> Iterator_default

\* { Value a(args); }  before any iterator is taken
IterNew == last.op \in {"none", "new"} /\ WalkNew

\* a[s] = n;  before any iterator is taken
IterSet == last.op \in {"none", "new", "walk_set"} /\ WalkSet

\* Value::iterator it1 = s1, it2 = s2;
IterInit ==
    /\ Running /\ last.op \in {"none", "new", "walk_set"}
    /\ \E s1 \in IterSources, s2 \in IterSources :
          /\ it1' = IterFrom(s1)
          /\ it2' = IterFrom(s2)
          /\ last' = [Op("iter_init") EXCEPT !.from = <<s1, s2>>]
    /\ UNCHANGED <<mem, fault, a, b, k1, k2, path>>

\* it1 == it2; it2 == it1;
IterCompare ==
    /\ Running /\ last.op \in {"iter_init", "iter_assign", "iter_step"}
    /\ \E defined \in {Iterator_isEqualDefined(it1, it2)
                          /\ Iterator_isEqualDefined(it2, it1)} :
          /\ last' = [Op("iter_compare") EXCEPT
                         !.eq = Iterator_isEqual(it1, it2),
                         !.same = Iterator_isEqual(it2, it1),
                         !.ub = ~defined,
                         !.from = IF last.op = "iter_init" THEN last.from ELSE <<>>]
          /\ fault' = ~defined
    /\ UNCHANGED <<mem, a, b, k1, k2, path, it1, it2>>

\* it1 - it2;
IterDistance ==
    /\ Running /\ last.op \in {"iter_init", "iter_assign", "iter_step"}
    /\ \E r \in {Iterator_computeDistance(it1, it2)} :
          /\ last' = [Op("iter_distance") EXCEPT
                         !.cmp = r.d, !.ub = r.ub,
                         !.from = IF last.op = "iter_init" THEN last.from ELSE <<>>]
          /\ fault' = r.ub
    /\ UNCHANGED <<mem, a, b, k1, k2, path, it1, it2>>

\* it1 = it2;  it1 and it2 each a Value::iterator or a
\* Value::const_iterator; then it1 == it2; it2 == it1;
IterAssign ==
    /\ Running /\ last.op \in {"iter_init", "iter_step"}
    /\ \E cls \in AssignOverloads :
       \E r \in {CASE cls = "ValueIterator" -> ValueIterator_assign(it1, it2)
                   [] cls = "ValueConstIterator" -> ValueConstIterator_assign(it1, it2)
                   [] OTHER -> ValueConstIterator_assign_implicit(it1, it2)} :
          /\ it1' = r
          /\ last' = [Op("iter_assign") EXCEPT
                         !.w = cls,
                         !.eq = Iterator_isEqual(r, it2),
                         !.same = Iterator_isEqual(it2, r),
                         !.ub = ~(Iterator_isEqualDefined(r, it2)
                                    /\ Iterator_isEqualDefined(it2, r)),
                         !.found = it1.isNull_]
    /\ UNCHANGED <<mem, fault, a, b, k1, k2, path, it2>>

\* ++current_ stays within the domain of ++: the iterator is bound and not
\* at the end of its map
Iterator_incrementDefined(h, it) ==
    /\ ~Singular(it.current_)
    /\ it.current_.pos <= Len(h.cells[it.current_.map].ents)

\* --current_ stays within the domain of --: the iterator is bound and not
\* at the begin of its map
Iterator_decrementDefined(h, it) ==
    ~Singular(it.current_) /\ it.current_.pos > 1

\* what a ++ or -- outside its domain may leave in current_: any position
\* of the map, or the value-initialized iterator as it was
Strayed(h, it) ==
    IF Singular(it.current_) THEN {it}
    ELSE {[it EXCEPT !.current_.pos = q] :
             q \in 1..(Len(h.cells[it.current_.map].ents) + 1)}

\* ++it; or it++;  (ValueIterator::operator++, ValueConstIterator::operator++)
IterIncrement ==
    /\ Running /\ last.op \in {"iter_init", "iter_assign", "iter_step"}
    /\ \E w \in {1, 2} :
       \E it \in {IF w = 1 THEN it1 ELSE it2} :
       \E defined \in {Iterator_incrementDefined(Heap(mem), it)} :
       \E r \in (IF defined THEN {Iterator_increment(it)} ELSE Strayed(Heap(mem), it)) :
          /\ it1' = IF w = 1 THEN r ELSE it1
          /\ it2' = IF w = 2 THEN r ELSE it2
          /\ last' = [Op("iter_step") EXCEPT !.i = w, !.w = "++", !.ub = ~defined]
          /\ fault' = ~defined
    /\ UNCHANGED <<mem, a, b, k1, k2, path>>

\* --it; or it--;  (ValueIterator::operator--, ValueConstIterator::operator--)
IterDecrement ==
    /\ Running /\ last.op \in {"iter_init", "iter_assign", "iter_step"}
    /\ \E w \in {1, 2} :
       \E it \in {IF w = 1 THEN it1 ELSE it2} :
       \E defined \in {Iterator_decrementDefined(Heap(mem), it)} :
       \E r \in (IF defined THEN {Iterator_decrement(it)} ELSE Strayed(Heap(mem), it)) :
          /\ it1' = IF w = 1 THEN r ELSE it1
          /\ it2' = IF w = 2 THEN r ELSE it2
          /\ last' = [Op("iter_step") EXCEPT !.i = w, !.w = "--", !.ub = ~defined]
          /\ fault' = ~defined
    /\ UNCHANGED <<mem, a, b, k1, k2, path>>

NextIter ==
    \/ IterNew \/ IterSet \/ IterInit \/ IterCompare \/ IterDistance \/ IterAssign
    \/ IterIncrement \/ IterDecrement

SpecIter == Init /\ [][NextIter]_vars

\* C23: begin() and end() of a node that is neither Array nor Object are
\* detached, those of an Array or Object are bound and equal exactly when
\* the store is empty; a detached iterator equals another iterator exactly
\* when that one is detached too, whichever operand it is; the distance
\* between two detached iterators is 0
C23_DetachedIterators ==
    /\ last.op = "iter_init" =>
          /\ last.from[1] # "default" =>
                (it1.isNull_ <=> a.type_ \notin {arrayValue, objectValue})
          /\ last.from[2] # "default" =>
                (it2.isNull_ <=> a.type_ \notin {arrayValue, objectValue})
    /\ (last.op = "iter_compare" /\ last.from # <<>>) =>
          /\ ~last.ub /\ ~fault
          /\ (it1.isNull_ \/ it2.isNull_) =>
                /\ last.eq <=> (it1.isNull_ /\ it2.isNull_)
                /\ last.same <=> (it1.isNull_ /\ it2.isNull_)
          /\ (last.from = <<"begin", "end">> /\ ~it1.isNull_) =>
                /\ last.eq <=> Value_size(Heap(mem), a) = 0
                /\ last.same <=> Value_size(Heap(mem), a) = 0
    /\ (last.op = "iter_distance" /\ last.from # <<>>
          /\ it1.isNull_ /\ it2.isNull_) =>
          /\ ~last.ub /\ last.cmp = 0

\* C28: after it1 = it2 through ValueIterator::operator= or
\* ValueConstIterator::operator=, it1 is detached exactly when it2 is, and
\* it1 == it2 and it2 == it1 both hold
C28_AssignKeepsState ==
    last.op = "iter_assign" =>
        /\ it1.isNull_ <=> it2.isNull_
        /\ ~last.ub
        /\ last.eq /\ last.same


----------------------------------------------------------------------------
(* Reading lookups: tryGet and get *)

\* auto value = tryGet(...); JSONCPP_ASSERT(value != nullptr); return *value;
\* loc is what tryGet gave: the assert fails in the checked build, the
\* unchecked build dereferences the null pointer
Value_get(loc, tryub, checked) ==
    [loc |-> loc,
     assertion |-> ~(checked /\ ~tryub /\ loc = NoLoc),
     ub |-> tryub \/ (~checked /\ loc = NoLoc)]

\* Value& Value::get(ArrayIndex index); pre: null or array
Value_get_index(h, v, index, checked) ==
    Value_get(Value_tryGet_index(h, v, index), FALSE, checked)

\* Value& Value::get(std::string_view key); pre: null or object
Value_get_sv(h, v, key, checked) ==
    LET value == Value_tryGet_sv(h, v, key)
    IN  Value_get(value.loc, value.ub, checked)

\* { Value a(args); }
GetNew == WalkNew

\* a[s] = n;
GetSet == WalkSet

\* what a pointer or reference to a stored node shows
Seen(h, loc) == IF loc = NoLoc THEN <<>> ELSE <<Snap(h, Load(h, loc))>>

\* a.tryGet(index);
TryGetIndex ==
    /\ Running /\ Value_isArray(a)
    /\ \E index \in Indices, checked \in BOOLEAN :
       \E loc \in {Value_tryGet_index(Build(checked), a, index)} :
          last' = [Op("tryget_index") EXCEPT
                      !.i = index, !.checked = checked,
                      !.found = loc # NoLoc,
                      !.ret = Seen(Heap(mem), loc)]
    /\ UNCHANGED <<mem, fault, a, b, k1, k2, path, it1, it2>>

\* a.tryGet(std::string_view(key));
TryGetName ==
    /\ Running /\ Value_isObject(a)
    /\ \E key \in Texts, checked \in BOOLEAN :
       \E r \in {Value_tryGet_sv(Build(checked), a, StringView(key))} :
          /\ last' = [Op("tryget_name") EXCEPT
                         !.key = key, !.checked = checked,
                         !.found = r.loc # NoLoc, !.ub = r.ub,
                         !.ret = Seen(Heap(mem), r.loc)]
          /\ fault' = r.ub
    /\ UNCHANGED <<mem, a, b, k1, k2, path, it1, it2>>

\* a.get(index);
GetIndex ==
    /\ Running /\ Value_isArray(a)
    /\ \E index \in Indices, checked \in BOOLEAN :
       \E r \in {Value_get_index(Build(checked), a, index, checked)} :
          /\ last' = [Op("get_index") EXCEPT
                         !.i = index, !.checked = checked,
                         !.found = r.loc # NoLoc,
                         !.assertion = r.assertion, !.ub = r.ub,
                         !.ret = Seen(Heap(mem), r.loc)]
          /\ fault' = r.ub
    /\ UNCHANGED <<mem, a, b, k1, k2, path, it1, it2>>

\* a.get(std::string_view(key));
GetMember ==
    /\ Running /\ Value_isObject(a)
    /\ \E key \in Texts, checked \in BOOLEAN :
       \E r \in {Value_get_sv(Build(checked), a, StringView(key), checked)} :
          /\ last' = [Op("get_name") EXCEPT
                         !.key = key, !.checked = checked,
                         !.found = r.loc # NoLoc,
                         !.assertion = r.assertion, !.ub = r.ub,
                         !.ret = Seen(Heap(mem), r.loc)]
          /\ fault' = r.ub
    /\ UNCHANGED <<mem, a, b, k1, k2, path, it1, it2>>

NextGet == GetNew \/ GetSet \/ TryGetIndex \/ TryGetName \/ GetIndex \/ GetMember

SpecGet == Init /\ [][NextGet]_vars

\* the lookup of the last operation asked for an index that is not stored
\* in the node, or for a name that is not a member of it
AbsentLookup ==
    \/ /\ last.op \in {"tryget_index", "get_index"}
       /\ \A j \in 1..Len(last.pre.m) :
             ~(last.pre.m[j].name = <<>> /\ last.pre.m[j].index = last.i)
    \/ /\ last.op \in {"tryget_name", "get_name"}
       /\ \A j \in 1..Len(last.pre.m) : last.pre.m[j].name # <<last.key>>

\* C24: in both policies get and tryGet, asked on a Null or Array node for
\* an index that is not stored or on a Null or Object node for a name that
\* is not a member, give a not-found result: no assertion fails, no missing
\* entry is dereferenced and no other entry is given
C24_AbsentIsNotAnError ==
    AbsentLookup =>
        /\ last.assertion
        /\ ~last.ub /\ ~fault
        /\ ~last.found /\ last.ret = <<>>


----------------------------------------------------------------------------
(* The ownership policy of the keys of a store *)

OwnCtors == {Ctor("null", 0, <<>>), Ctor("type", objectValue, <<>>)}

\* { Value a(args); }
OwnNew == New("a", OwnCtors)

\* k = CZString(cstr, allocate);  before the tree is built
OwnKeyFromCStr == last.op \in {"none", "key_cstr"} /\ KeyFromCStr

\* k2 = CZString(k1);  before the tree is built
OwnKeyCopy == last.op \in {"key_cstr", "key_copy"} /\ KeyCopy

\* a[kv.first] = n;  kv being an entry of b.items(), b an Object
ObjectKeyAssign ==
    /\ Running /\ Value_isObject(a) /\ b.type_ = objectValue
    /\ \E i \in 1..Len(Ents(Heap(mem), b)), n \in ElemInts :
       \E key \in {Ents(Heap(mem), b)[i].first} :
       \E r \in {Value_at_k(Heap(mem), a, key)} :
       \E x \in {Value_assign_temp(r.h, Load(r.h, r.loc), Value_int(n))} :
       \E h2 \in {Store(x.h, r.loc, x.self)} :
              /\ Commit(h2)
              /\ a' = r.self
              /\ last' = [Op("key_assign") EXCEPT
                              !.key = TextAt(Heap(mem), key.cstr_),
                              !.i = key.index_,
                              !.x = Snap(h2, Value_int(n))]
    /\ UNCHANGED <<b, k1, k2, path, it1, it2>>

NextOwn ==
    \/ OwnNew \/ ObjectAssign \/ ObjectStaticAssign \/ ObjectRemove
    \/ CopyConstruct \/ CopyAssign \/ OwnKeyFromCStr \/ OwnKeyCopy
    \/ ObjectKeyAssign

SpecOwn == Init /\ [][NextOwn]_vars

\* the places a key is stored at: <<store, position>>
KeySlots ==
    {<<v.value_.map_, i>> : v \in {w \in {a, b} : w.type_ = objectValue},
                            i \in 1..MaxNames + 1}
KeysStored ==
    {s \in KeySlots : s[1] \in Addrs /\ s[2] <= Len(mem[s[1]].ents)}
KeyAt(s) == mem[s[1]].ents[s[2]].first

\* the key is under the no-duplication policy and holds a pointer into the
\* caller's static storage
NoDupKey(k) == k.index_ = noDuplication /\ k.cstr_ < 0

\* the key is an owned duplicate: a live malloc'ed string no other stored
\* key and no key object of the program holds
OwnedKey(k, holders) ==
    /\ k.index_ = duplicate /\ LiveText(k.cstr_)
    /\ holders = 1

\* how many keys hold the string at p
Holders(p) ==
    Cardinality({s \in KeysStored : KeyAt(s).cstr_ = p})
    + (IF k1.cstr_ = p THEN 1 ELSE 0) + (IF k2.cstr_ = p THEN 1 ELSE 0)

\* C25: a key inserted through a StaticString access holds the caller's
\* pointer under the no-duplication policy; a key inserted through a
\* string view holds an owned duplicate of the name; the copy of a
\* duplicate-on-copy key is an owned duplicate, and so is every later copy;
\* every stored key is a no-duplication key or an owned duplicate that
\* nothing else holds, none is released twice and none is leaked
C25_KeyOwnership ==
    /\ ~fault
    /\ \A s \in KeysStored :
          NoDupKey(KeyAt(s)) \/ OwnedKey(KeyAt(s), Holders(KeyAt(s).cstr_))
    /\ \A p \in Addrs : LiveText(p) => Holders(p) = 1
    /\ (last.op = "static_assign" /\ last.key \notin last.preMember) =>
          \E s \in KeysStored :
              /\ s[1] = a.value_.map_
              /\ KeyAt(s) = [cstr_ |-> StaticPtr(last.key), index_ |-> noDuplication]
    /\ (last.op = "name_assign" /\ last.key \notin last.preMember) =>
          \E s \in KeysStored :
              /\ s[1] = a.value_.map_
              /\ KeyAt(s).index_ = duplicate /\ LiveText(KeyAt(s).cstr_)
              /\ mem[KeyAt(s).cstr_].text = last.key
    /\ (last.op \in {"copy_construct", "copy_assign"} /\ a.type_ = objectValue) =>
          /\ b.type_ = objectValue
          /\ Len(mem[b.value_.map_].ents) = Len(mem[a.value_.map_].ents)
          /\ \A i \in 1..Len(mem[a.value_.map_].ents) :
                LET ka == mem[a.value_.map_].ents[i].first
                    kb == mem[b.value_.map_].ents[i].first
                IN  IF NoDupKey(ka) THEN kb = ka
                    ELSE /\ kb.index_ = duplicate /\ kb.cstr_ # ka.cstr_
                         /\ LiveText(kb.cstr_) /\ LiveText(ka.cstr_)
                         /\ mem[kb.cstr_].text = mem[ka.cstr_].text
    /\ (last.op = "key_copy" /\ k1.cstr_ # 0) =>
          IF k1.index_ = noDuplication THEN k2 = k1
          ELSE /\ k2.index_ = duplicate /\ k2.cstr_ # k1.cstr_
               /\ LiveText(k2.cstr_)
               /\ mem[k2.cstr_].text = TextAt(Heap(mem), k1.cstr_)


----------------------------------------------------------------------------
(* The kind of the keys of a store *)

NextHomog ==
    WalkNew \/ WalkSet \/ ObjectAssign \/ ObjectAccess \/ ObjectStaticAssign

SpecHomog == Init /\ [][NextHomog]_vars

\* the keys of the store of node v
KeysOf(v) ==
    IF v.value_.map_ \in Addrs
    THEN {mem[v.value_.map_].ents[i].first : i \in 1..Len(mem[v.value_.map_].ents)}
    ELSE {}

\* C27: every key of an Array node's store is an Index key and every key of
\* an Object node's store is a Name key; access by the empty member name
\* makes a member named "" that is found again and is no other member
C27_StoreHomogeneity ==
    /\ ~fault
    /\ \A v \in LiveNodes :
          /\ v.type_ = arrayValue => \A k \in KeysOf(v) : IsIndexKey(k)
          /\ v.type_ = objectValue => \A k \in KeysOf(v) : IsNameKey(k)
    /\ (last.op \in {"name_assign", "name_access", "static_assign"}
          /\ last.key = <<>>) =>
          /\ <<>> \in Members(Heap(mem), a)
          /\ \A t \in Texts \ {<<>>} : GetName(Heap(mem), a, t) = last.preName[t]


----------------------------------------------------------------------------
(* Lookup by a string and lookup by a key *)

\* how a Name key is built from a string: by CZString(std::string_view), as
\* operator[](std::string_view) does, or by CZString(cstr, noDuplication),
\* as operator[](const StaticString&) does
KeyBuilds == {"view", "static"}

NameKey(h, t, build) ==
    IF build = "view" THEN CZString_sv(h, StringView(t))
    ELSE CZString_cstr(h, StaticPtr(t), noDuplication)

\* CZStringCompare()(s, k), (k, s) with s a std::string_view and with s a
\* literal, and CZStringCompare()(ks, k), (k, ks) with ks the Name key
\* built from s; k is a key of the store of a
HetCompare ==
    /\ Running /\ last.op # "het_compare" /\ a.type_ = objectValue
    /\ \E t \in Texts, build \in KeyBuilds, k \in KeysOf(a) :
       \E ks \in {NameKey(Heap(mem), t, build)} :
       \E sk \in {CZStringCompare_sk(ks.h, StringView(t), k)} :
       \E ksv \in {CZStringCompare_ks(ks.h, k, StringView(t))} :
              /\ ~ks.h.oom
              /\ last' = [Op("het_compare") EXCEPT
                             !.key = t, !.w = build,
                             !.ub = sk.ub \/ ksv.ub,
                             !.het = [sv_k |-> sk.lt, k_sv |-> ksv.lt,
                                      c_k |-> CZStringCompare_ck(ks.h, t, k),
                                      k_c |-> CZStringCompare_kc(ks.h, k, t),
                                      ks_k |-> CZStringCompare_kk(ks.h, ks.k, k),
                                      k_ks |-> CZStringCompare_kk(ks.h, k, ks.k)]]
              /\ fault' = (sk.ub \/ ksv.ub)
    /\ UNCHANGED <<mem, a, b, k1, k2, path, it1, it2>>

\* a.tryGet(std::string_view(s)) and a.tryGet(ks) with ks the Name key built
\* from s
HetLookup ==
    /\ Running /\ Value_isObject(a) /\ last.op # "het_lookup"
    /\ \E t \in Texts, build \in KeyBuilds :
       \E ks \in {NameKey(Heap(mem), t, build)} :
       \E r \in {Value_tryGet_sv(ks.h, a, StringView(t))} :
       \E loc \in {Value_tryGet_k(ks.h, a, ks.k)} :
              /\ ~ks.h.oom
              /\ last' = [Op("het_lookup") EXCEPT
                             !.key = t, !.w = build, !.ub = r.ub,
                             !.found = r.loc # NoLoc,
                             !.same = loc # NoLoc,
                             !.node = loc,
                             !.ret = Seen(ks.h, r.loc)]
              /\ fault' = r.ub
    /\ UNCHANGED <<mem, a, b, k1, k2, path, it1, it2>>

NextHet == ObjectAssign \/ ObjectStaticAssign \/ HetCompare \/ HetLookup

SpecHet == Init /\ [][NextHet]_vars

\* C26: for a string s and a key k the comparator's string-view and literal
\* comparisons of s with k, either way round, give what its comparison of
\* the Name key built from s with k gives, whatever the ownership policy of
\* the keys; tryGet by the string view s finds an entry exactly when tryGet
\* by the Name key built from s finds it, and then the same entry
C26_HeterogeneousLookup ==
    /\ last.op = "het_compare" =>
          /\ ~last.ub
          /\ last.het.sv_k = last.het.ks_k
          /\ last.het.c_k = last.het.ks_k
          /\ last.het.k_sv = last.het.k_ks
          /\ last.het.k_c = last.het.k_ks
    /\ last.op = "het_lookup" =>
          /\ ~last.ub
          /\ last.found <=> last.same
          /\ last.ret = Seen(Heap(mem), last.node)


----------------------------------------------------------------------------
(* isConvertibleTo and the accessors *)

\* the type an accessor converts to
TargetType(op) ==
    CASE op = "asInt" -> intValue [] op = "asUInt" -> uintValue
      [] op = "asDouble" -> realValue [] op = "asString" -> stringValue
      [] OTHER -> booleanValue

\* C29: in the checked policy, whenever a.isConvertibleTo(T) is true for T
\* one of Int, UInt, Real, String, Bool, the accessor of T (asInt, asUInt,
\* asDouble, asString, asBool) applied to a returns a value and signals
\* neither TypeMismatch nor RangeOverflow
C29_ConvertibleThenAccessible ==
    (/\ last.op \in {"asInt", "asUInt", "asDouble", "asString", "asBool"}
     /\ last.checked
     /\ Value_isConvertibleTo(Heap(mem), a, TargetType(last.op))) =>
        /\ ~last.ub
        /\ last.signal = "none"
        /\ last.ret # <<>>


----------------------------------------------------------------------------
(* String nodes built in different ways *)

\* how a String node is built from a text: Value(const char*),
\* Value(std::string_view) / Value(const std::string&), Value(StaticString)
StringKinds == {"cstr", "sv", "static"}
StringTexts == {StaticTable[1], StaticTable[2], StaticTable[3]}

\* Value w(text); or { Value temp(text); Value w(temp); }
StringBuilt(h, kind, t, copied) ==
    LET c == Construct(h, Ctor(kind, 0, t))
    IN  IF ~copied THEN c
        ELSE LET w == Value_copy(c.h, c.v)
             IN  [h |-> Value_dtor(w.h, c.v), v |-> w.v]

\* { Value a(t1); Value b(t2); }  each directly or as the copy of a temporary
StringNew ==
    /\ Running /\ last.op # "string_new"
    /\ \E t1 \in StringTexts, t2 \in StringTexts,
          kind1 \in StringKinds, kind2 \in StringKinds,
          copied1 \in BOOLEAN, copied2 \in BOOLEAN :
       \E h0 \in {Value_dtor(Value_dtor(Heap(mem), a), b)} :
       \E x \in {StringBuilt(h0, kind1, t1, copied1)} :
       \E y \in {StringBuilt(x.h, kind2, t2, copied2)} :
              /\ Commit(y.h)
              /\ a' = x.v
              /\ b' = y.v
              /\ last' = [Op("string_new") EXCEPT
                             !.from = <<kind1, kind2>>,
                             !.log = <<t1, t2>>]
    /\ UNCHANGED <<k1, k2, path, it1, it2>>

NextStr == StringNew \/ Compare

SpecStr == Init /\ [][NextStr]_vars

\* C30: two String nodes built from the same text are equal, and neither
\* is less than the other, whichever constructors built them and also
\* when one or both are copies; the empty text included
C30_StringEqualityByContent ==
    (/\ last.op = "compare"
     /\ Len(last.log) = 2 /\ last.log[1] = last.log[2]) =>
        /\ a.type_ = stringValue /\ b.type_ = stringValue
        /\ last.eq /\ ~last.ne
        /\ ~last.lt /\ ~last.gt

=============================================================================
